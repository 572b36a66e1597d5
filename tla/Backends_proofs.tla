--------------------------- MODULE Backends_proofs ---------------------------
(***************************************************************************)
(* The choice of an implementation, and the vector code it leads to.       *)
(* For any number of threads and calls, any CPU, and any staleness a       *)
(* Relaxed load may have: no call answers what the CPU cannot run, and     *)
(* where nothing is measured all calls agree.  For any input and any room  *)
(* to write to: the Base64 blocks of every backend stay in their buffers,  *)
(* the encoder of every backend writes the text of RFC 4648, and every     *)
(* decoder gives its bytes, or refuses a text, as RFC 4648 does.           *)
(***************************************************************************)
EXTENDS BackendCache, Base64Codec, SequenceTheorems, Numbers, TLAPS

(* The cascades                                                              *)

\* A set of few numbers has a least one.
LEMMA FirstIs ==
  ASSUME NEW S \in SUBSET (1 .. 6), S # {}
  PROVE  First(S) \in S
<1>1. \E i \in S : \A j \in S : i <= j
  <2>1. CASE 1 \in S
    BY <2>1
  <2>2. CASE 1 \notin S /\ 2 \in S
    BY <2>2, SMT
  <2>3. CASE 1 \notin S /\ 2 \notin S /\ 3 \in S
    BY <2>3, SMT
  <2>4. CASE 1 \notin S /\ 2 \notin S /\ 3 \notin S /\ 4 \in S
    BY <2>4, SMT
  <2>5. CASE 1 \notin S /\ 2 \notin S /\ 3 \notin S /\ 4 \notin S /\ 5 \in S
    BY <2>5, SMT
  <2>6. CASE 1 \notin S /\ 2 \notin S /\ 3 \notin S /\ 4 \notin S /\ 5 \notin S
    <3>1. \A j \in S : j = 6
      BY <2>6
    <3>2. PICK i \in S : TRUE
      OBVIOUS
    <3> QED BY <3>1, <3>2
  <2> QED BY <2>1, <2>2, <2>3, <2>4, <2>5, <2>6
<1> QED BY <1>1 DEF First

\* Each cascade ends with what needs nothing and is never measured.
LEMMA CascadeEnds ==
  ASSUME cache \in Caches
  PROVE  /\ DOMAIN Cascade[cache] \subseteq 1 .. 6
         /\ \E i \in DOMAIN Cascade[cache] :
              Cascade[cache][i][2] = {} /\ Cascade[cache][i][1] # "neon"
<1>1. CASE cache = "fill"
  BY <1>1 DEF Cascade
<1>2. CASE cache = "blake2b"
  BY <1>2 DEF Cascade
<1>3. CASE cache = "base64"
  BY <1>3 DEF Cascade
<1>4. CASE cache = "ssse3"
  BY <1>4 DEF Cascade
<1> QED BY <1>1, <1>2, <1>3, <1>4 DEF Caches

\* The features each function is compiled with, one by one.
LEMMA NeedsIs ==
  /\ Needs("avx512") = IF cache = "fill" THEN {"avx512f"} ELSE {"avx2", "avx512f", "avx512vl"}
  /\ Needs("avx2") = IF cache = "base64" THEN {"avx2", "ssse3"} ELSE {"avx2"}
  /\ Needs("sse41") = {"sse4.1"}
  /\ Needs("ssse3") = {"ssse3"}
  /\ Needs("yes") = {"ssse3"}
  /\ Needs("sse2") = {"sse2"}
  /\ Needs("neon") = {"neon"}
  /\ Needs("wasm128") = {"simd128"}
  /\ Needs("scalar") = {} /\ Needs("no") = {}
  BY DEF Needs

\* What a probe asks for is what the functions behind the answer are compiled with.
LEMMA CascadeIsSound ==
  ASSUME cache \in Caches, NEW i \in DOMAIN Cascade[cache]
  PROVE  /\ Cascade[cache][i][1] \in Values
         /\ Cascade[cache][i][1] # Uninit
         /\ Needs(Cascade[cache][i][1]) = Cascade[cache][i][2]
<1>1. Cascade[cache][i][1] \in Values
  <2>1. Cascade[cache][i] \in {Cascade[cache][j] : j \in DOMAIN Cascade[cache]}
    OBVIOUS
  <2>2. Cascade[cache][i] \in
          UNION {{Cascade[k][j] : j \in DOMAIN Cascade[k]} : k \in Caches}
    BY <2>1
  <2> QED BY <2>2 DEF Values
<1>2. CASE cache = "fill"
  <2>1. Cascade[cache] = <<<<"avx512", {"avx512f"}>>, <<"avx2", {"avx2"}>>,
                          <<"sse2", {"sse2"}>>, <<"neon", {"neon"}>>,
                          <<"wasm128", {"simd128"}>>, <<"scalar", {}>>>>
    BY <1>2 DEF Cascade
  <2>2. i \in 1 .. 6
    BY <2>1
  <2>3. CASE i = 1
    <3>1. Cascade[cache][i] = <<"avx512", {"avx512f"}>>
      BY <2>1, <2>3
    <3>2. Needs("avx512") = {"avx512f"}
      BY <1>2, NeedsIs
    <3> QED BY <1>1, <3>1, <3>2 DEF Uninit
  <2>4. CASE i = 2
    <3>1. Cascade[cache][i] = <<"avx2", {"avx2"}>>
      BY <2>1, <2>4
    <3>2. Needs("avx2") = {"avx2"}
      BY <1>2, NeedsIs
    <3> QED BY <1>1, <3>1, <3>2 DEF Uninit
  <2>5. CASE i = 3
    <3>1. Cascade[cache][i] = <<"sse2", {"sse2"}>>
      BY <2>1, <2>5
    <3>2. Needs("sse2") = {"sse2"}
      BY <1>2, NeedsIs
    <3> QED BY <1>1, <3>1, <3>2 DEF Uninit
  <2>6. CASE i = 4
    <3>1. Cascade[cache][i] = <<"neon", {"neon"}>>
      BY <2>1, <2>6
    <3>2. Needs("neon") = {"neon"}
      BY <1>2, NeedsIs
    <3> QED BY <1>1, <3>1, <3>2 DEF Uninit
  <2>7. CASE i = 5
    <3>1. Cascade[cache][i] = <<"wasm128", {"simd128"}>>
      BY <2>1, <2>7
    <3>2. Needs("wasm128") = {"simd128"}
      BY <1>2, NeedsIs
    <3> QED BY <1>1, <3>1, <3>2 DEF Uninit
  <2>8. CASE i = 6
    <3>1. Cascade[cache][i] = <<"scalar", {}>>
      BY <2>1, <2>8
    <3>2. Needs("scalar") = {}
      BY <1>2, NeedsIs
    <3> QED BY <1>1, <3>1, <3>2 DEF Uninit
  <2> QED BY <2>2, <2>3, <2>4, <2>5, <2>6, <2>7, <2>8
<1>3. CASE cache = "blake2b"
  <2>1. Cascade[cache] = <<<<"avx512", {"avx2", "avx512f", "avx512vl"}>>,
                          <<"avx2", {"avx2"}>>, <<"sse41", {"sse4.1"}>>,
                          <<"scalar", {}>>>>
    BY <1>3 DEF Cascade
  <2>2. i \in 1 .. 4
    BY <2>1
  <2>3. CASE i = 1
    <3>1. Cascade[cache][i] = <<"avx512", {"avx2", "avx512f", "avx512vl"}>>
      BY <2>1, <2>3
    <3>2. Needs("avx512") = {"avx2", "avx512f", "avx512vl"}
      BY <1>3, NeedsIs
    <3> QED BY <1>1, <3>1, <3>2 DEF Uninit
  <2>4. CASE i = 2
    <3>1. Cascade[cache][i] = <<"avx2", {"avx2"}>>
      BY <2>1, <2>4
    <3>2. Needs("avx2") = {"avx2"}
      BY <1>3, NeedsIs
    <3> QED BY <1>1, <3>1, <3>2 DEF Uninit
  <2>5. CASE i = 3
    <3>1. Cascade[cache][i] = <<"sse41", {"sse4.1"}>>
      BY <2>1, <2>5
    <3>2. Needs("sse41") = {"sse4.1"}
      BY <1>3, NeedsIs
    <3> QED BY <1>1, <3>1, <3>2 DEF Uninit
  <2>6. CASE i = 4
    <3>1. Cascade[cache][i] = <<"scalar", {}>>
      BY <2>1, <2>6
    <3>2. Needs("scalar") = {}
      BY <1>3, NeedsIs
    <3> QED BY <1>1, <3>1, <3>2 DEF Uninit
  <2> QED BY <2>2, <2>3, <2>4, <2>5, <2>6
<1>4. CASE cache = "base64"
  <2>1. Cascade[cache] = <<<<"avx2", {"avx2", "ssse3"}>>,
                          <<"ssse3", {"ssse3"}>>, <<"neon", {"neon"}>>,
                          <<"wasm128", {"simd128"}>>, <<"scalar", {}>>>>
    BY <1>4 DEF Cascade
  <2>2. i \in 1 .. 5
    BY <2>1
  <2>3. CASE i = 1
    <3>1. Cascade[cache][i] = <<"avx2", {"avx2", "ssse3"}>>
      BY <2>1, <2>3
    <3>2. Needs("avx2") = {"avx2", "ssse3"}
      BY <1>4, NeedsIs
    <3> QED BY <1>1, <3>1, <3>2 DEF Uninit
  <2>4. CASE i = 2
    <3>1. Cascade[cache][i] = <<"ssse3", {"ssse3"}>>
      BY <2>1, <2>4
    <3>2. Needs("ssse3") = {"ssse3"}
      BY <1>4, NeedsIs
    <3> QED BY <1>1, <3>1, <3>2 DEF Uninit
  <2>5. CASE i = 3
    <3>1. Cascade[cache][i] = <<"neon", {"neon"}>>
      BY <2>1, <2>5
    <3>2. Needs("neon") = {"neon"}
      BY <1>4, NeedsIs
    <3> QED BY <1>1, <3>1, <3>2 DEF Uninit
  <2>6. CASE i = 4
    <3>1. Cascade[cache][i] = <<"wasm128", {"simd128"}>>
      BY <2>1, <2>6
    <3>2. Needs("wasm128") = {"simd128"}
      BY <1>4, NeedsIs
    <3> QED BY <1>1, <3>1, <3>2 DEF Uninit
  <2>7. CASE i = 5
    <3>1. Cascade[cache][i] = <<"scalar", {}>>
      BY <2>1, <2>7
    <3>2. Needs("scalar") = {}
      BY <1>4, NeedsIs
    <3> QED BY <1>1, <3>1, <3>2 DEF Uninit
  <2> QED BY <2>2, <2>3, <2>4, <2>5, <2>6, <2>7
<1>5. CASE cache = "ssse3"
  <2>1. Cascade[cache] = <<<<"yes", {"ssse3"}>>, <<"no", {}>>>>
    BY <1>5 DEF Cascade
  <2>2. i \in 1 .. 2
    BY <2>1
  <2>3. CASE i = 1
    <3>1. Cascade[cache][i] = <<"yes", {"ssse3"}>>
      BY <2>1, <2>3
    <3>2. Needs("yes") = {"ssse3"}
      BY <1>5, NeedsIs
    <3> QED BY <1>1, <3>1, <3>2 DEF Uninit
  <2>4. CASE i = 2
    <3>1. Cascade[cache][i] = <<"no", {}>>
      BY <2>1, <2>4
    <3>2. Needs("no") = {}
      BY <1>5, NeedsIs
    <3> QED BY <1>1, <3>1, <3>2 DEF Uninit
  <2> QED BY <2>2, <2>3, <2>4
<1> QED BY <1>2, <1>3, <1>4, <1>5 DEF Caches

\* Whatever detect() may return can run, and without a measurement it is one value.
LEMMA DetectableIs ==
  ASSUME cache \in Caches
  PROVE  /\ \A v \in Detectable : v \in Values /\ v # Uninit /\ Needs(v) \subseteq host
         /\ ~timed => \A v, w \in Detectable : v = w
<1> DEFINE hits == {i \in DOMAIN Cascade[cache] : Probe(i)}
           cold == {i \in hits : ~SkippedByTiming(i)}
<1>1. hits \in SUBSET (1 .. 6) /\ cold \in SUBSET (1 .. 6) /\ cold # {} /\ hits # {}
  BY CascadeEnds DEF Probe, SkippedByTiming
<1>2. First(hits) \in hits /\ First(cold) \in hits
  BY <1>1, FirstIs
<1>3. Detectable = {Cascade[cache][First(hits)][1], Cascade[cache][First(cold)][1]}
  BY DEF Detectable
<1>4. ASSUME NEW i \in hits
      PROVE  /\ Cascade[cache][i][1] \in Values /\ Cascade[cache][i][1] # Uninit
             /\ Needs(Cascade[cache][i][1]) \subseteq host
  BY CascadeIsSound DEF Probe
<1>5. ASSUME ~timed PROVE cold = hits
  BY <1>5 DEF SkippedByTiming
<1> HIDE DEF hits, cold
<1> QED BY <1>2, <1>3, <1>4, <1>5

-----------------------------------------------------------------------------
(* The invariant                                                             *)

Seen == Detectable \cup {Uninit}

CacheTypes ==
  /\ cache \in Caches
  /\ writes \in Seq(Seen)
  /\ pc \in [Threads -> {"idle", "detect", "store"}]
  /\ detected \in [Threads -> Seen]
  /\ answers \in [Threads -> Seq(Detectable)]

\* What a thread is about to store is an answer, never the sentinel.
StoresAnswers == \A t \in Threads : pc[t] = "store" => detected[t] \in Detectable

CacheInvariant == CacheTypes /\ StoresAnswers

\* The set of possible answers does not change, for the setting does not.
LEMMA DetectableStays ==
  ASSUME UNCHANGED setting
  PROVE  Detectable' = Detectable /\ Seen' = Seen
  BY DEF setting, Detectable, Seen, Probe, SkippedByTiming

\* At first nothing is written and nobody has an answer.
LEMMA CacheStarts == Init => CacheInvariant
<1> SUFFICES ASSUME Init PROVE CacheInvariant
  OBVIOUS
<1>1. writes \in Seq(Seen)
  BY DEF Init, Seen
<1>2. answers \in [Threads -> Seq(Detectable)]
  BY DEF Init
<1> QED BY <1>1, <1>2 DEF Init, CacheInvariant, CacheTypes, StoresAnswers, Seen

\* A load of any write there has been.
LEMMA LoadStep ==
  ASSUME CacheInvariant, NEW t \in Threads, NEW i \in DOMAIN writes,
         LoadCached(t, i) \/ LoadSentinel(t, i)
  PROVE  CacheInvariant'
<1> USE DEF CacheInvariant
<1>1. Detectable' = Detectable /\ Seen' = Seen
  BY DetectableStays DEF LoadCached, LoadSentinel
<1>2. CASE LoadCached(t, i)
  <2>1. writes[i] \in Detectable
    <3>1. writes[i] \in Seen
      BY DEF CacheTypes
    <3> QED BY <1>2, <3>1 DEF LoadCached, Seen
  <2>2. Append(answers[t], writes[i]) \in Seq(Detectable)
    BY <2>1 DEF CacheTypes
  <2>3. answers' \in [Threads -> Seq(Detectable)]
    BY <1>2, <2>2 DEF LoadCached, CacheTypes
  <2> QED BY <1>1, <1>2, <2>3 DEF LoadCached, CacheTypes, StoresAnswers, setting
<1>3. CASE LoadSentinel(t, i)
  BY <1>1, <1>3 DEF LoadSentinel, CacheTypes, StoresAnswers, setting
<1> QED BY <1>2, <1>3

\* Detection answers what the CPU can run.
LEMMA DetectStep ==
  ASSUME CacheInvariant, NEW t \in Threads, Detect(t)
  PROVE  CacheInvariant'
<1> USE DEF CacheInvariant
<1>1. Detectable' = Detectable /\ Seen' = Seen
  BY DetectableStays DEF Detect
<1>2. PICK d \in Detectable : detected' = [detected EXCEPT ![t] = d]
  BY DEF Detect
<1>3. d \in Seen
  BY DEF Seen
<1> QED BY <1>1, <1>2, <1>3 DEF Detect, CacheTypes, StoresAnswers, setting

\* A store is of what was detected.
LEMMA StoreStep ==
  ASSUME CacheInvariant, NEW t \in Threads, Store(t)
  PROVE  CacheInvariant'
<1> USE DEF CacheInvariant
<1>1. Detectable' = Detectable /\ Seen' = Seen
  BY DetectableStays DEF Store
<1>2. detected[t] \in Detectable /\ detected[t] \in Seen
  BY DEF Store, StoresAnswers, CacheTypes
<1>3. writes' \in Seq(Seen)
  BY <1>2 DEF Store, CacheTypes
<1>4. Append(answers[t], detected[t]) \in Seq(Detectable)
  BY <1>2 DEF CacheTypes
<1>5. answers' \in [Threads -> Seq(Detectable)]
  BY <1>4 DEF Store, CacheTypes
<1> QED BY <1>1, <1>3, <1>5 DEF Store, CacheTypes, StoresAnswers, setting

-----------------------------------------------------------------------------
(* The theorems                                                              *)

\* Every write but the sentinel, and every answer, is one detect() could return.
THEOREM CacheInductive == Spec => []CacheInvariant
<1>1. CacheInvariant /\ [Next]_vars => CacheInvariant'
  <2> SUFFICES ASSUME CacheInvariant, [Next]_vars PROVE CacheInvariant'
    OBVIOUS
  <2>1. ASSUME NEW t \in Threads, NEW i \in DOMAIN writes,
               LoadCached(t, i) \/ LoadSentinel(t, i)
        PROVE  CacheInvariant'
    BY <2>1, LoadStep
  <2>2. ASSUME NEW t \in Threads, Detect(t) PROVE CacheInvariant'
    BY <2>2, DetectStep
  <2>3. ASSUME NEW t \in Threads, Store(t) PROVE CacheInvariant'
    BY <2>3, StoreStep
  <2>4. CASE UNCHANGED vars
    <3>1. Detectable' = Detectable /\ Seen' = Seen
      BY <2>4, DetectableStays DEF vars
    <3> QED BY <2>4, <3>1
            DEF vars, setting, CacheInvariant, CacheTypes, StoresAnswers
  <2> QED BY <2>1, <2>2, <2>3, <2>4 DEF Next
<1> QED BY <1>1, CacheStarts, PTL DEF Spec

\* What a call answers, somebody detected.
LEMMA AnswersDetectable ==
  ASSUME CacheInvariant, NEW v \in AllAnswers
  PROVE  v \in Detectable
<1>1. PICK t \in Threads : v \in AnswersOf(t)
  BY DEF AllAnswers
<1>2. PICK i \in DOMAIN answers[t] : v = answers[t][i]
  BY <1>1 DEF AnswersOf
<1> QED BY <1>2 DEF CacheInvariant, CacheTypes

\* Every call, of any thread and however stale its load, answers with an
\* implementation that the CPU has the instructions for.
THEOREM AnswersRun == Spec => []AnswersCanRun
<1>1. CacheInvariant => AnswersCanRun
  <2> SUFFICES ASSUME CacheInvariant, NEW v \in AllAnswers
      PROVE  v \in Values /\ Needs(v) \subseteq host
    BY DEF AnswersCanRun
  <2> QED BY AnswersDetectable, DetectableIs DEF CacheInvariant, CacheTypes
<1> QED BY <1>1, CacheInductive, PTL

\* Where nothing is measured, threads that race through the sentinel and threads that
\* read another's store get the same answer.
THEOREM AnswersAgree == Spec => []AgreeUnlessTimed
<1>1. CacheInvariant => AgreeUnlessTimed
  <2> SUFFICES ASSUME CacheInvariant, ~timed, NEW v \in AllAnswers, NEW w \in AllAnswers
      PROVE  v = w
    BY DEF AgreeUnlessTimed
  <2>1. v \in Detectable /\ w \in Detectable
    BY AnswersDetectable
  <2> QED BY <2>1, DetectableIs DEF CacheInvariant, CacheTypes
<1> QED BY <1>1, CacheInductive, PTL

-----------------------------------------------------------------------------
(* Lengths of sequences                                                      *)

IsSeq(s) == \E S : s \in Seq(S)

\* The length of a concatenation.
LEMMA ConcatIs ==
  ASSUME NEW s, NEW t, IsSeq(s), IsSeq(t)
  PROVE  IsSeq(s \o t) /\ Len(s \o t) = Len(s) + Len(t)
<1>1. PICK S : s \in Seq(S)
  BY DEF IsSeq
<1>2. PICK T : t \in Seq(T)
  BY DEF IsSeq
<1>3. s \in Seq(S \cup T) /\ t \in Seq(S \cup T)
  BY <1>1, <1>2
<1>4. s \o t \in Seq(S \cup T) /\ Len(s \o t) = Len(s) + Len(t)
  BY <1>3
<1> QED BY <1>4 DEF IsSeq

\* A function on 1 .. n is a sequence of length n.
LEMMA FunctionIsSeq ==
  ASSUME NEW n \in Nat, NEW f, f = [i \in 1 .. n |-> f[i]]
  PROVE  IsSeq(f) /\ Len(f) = n
<1>1. f \in [1 .. n -> {f[i] : i \in 1 .. n}]
  OBVIOUS
<1>2. f \in Seq({f[i] : i \in 1 .. n})
  BY <1>1
<1>3. Len(f) = n
  BY <1>1, <1>2
<1> QED BY <1>2, <1>3 DEF IsSeq

\* The beginning of a sequence.
LEMMA SubSeqIs ==
  ASSUME NEW s, IsSeq(s), NEW n \in Nat, n <= Len(s)
  PROVE  IsSeq(SubSeq(s, 1, n)) /\ Len(SubSeq(s, 1, n)) = n
<1>1. PICK S : s \in Seq(S)
  BY DEF IsSeq
<1>2. SubSeq(s, 1, n) \in Seq(S) /\ Len(SubSeq(s, 1, n)) = n
  BY <1>1
<1> QED BY <1>2 DEF IsSeq

-----------------------------------------------------------------------------
(* How much a block writes                                                   *)

\* A sequence of length n, whatever is in it.
Measures(s, n) == IsSeq(s) /\ Len(s) = n /\ DOMAIN s = 1 .. n

\* The same facts, of sequences that are known by their measure.
LEMMA Measured ==
  ASSUME NEW n \in Nat, NEW f, f = [i \in 1 .. n |-> f[i]]
  PROVE  Measures(f, n)
<1>1. DOMAIN f = 1 .. n
  OBVIOUS
<1> QED BY <1>1, FunctionIsSeq DEF Measures

\* One sequence after the other.
LEMMA Joined ==
  ASSUME NEW s, NEW t, NEW m \in Nat, NEW n \in Nat, Measures(s, m), Measures(t, n)
  PROVE  Measures(s \o t, m + n)
<1>1. IsSeq(s \o t) /\ Len(s \o t) = m + n
  BY ConcatIs DEF Measures
<1>2. DOMAIN (s \o t) = 1 .. m + n
  BY <1>1 DEF IsSeq
<1> QED BY <1>1, <1>2 DEF Measures

\* The beginning of a sequence.
LEMMA Cut ==
  ASSUME NEW s, NEW m \in Nat, NEW n \in Nat, n <= m, Measures(s, m)
  PROVE  Measures(SubSeq(s, 1, n), n)
<1>1. IsSeq(SubSeq(s, 1, n)) /\ Len(SubSeq(s, 1, n)) = n
  BY SubSeqIs DEF Measures
<1>2. DOMAIN SubSeq(s, 1, n) = 1 .. n
  BY <1>1 DEF IsSeq
<1> QED BY <1>1, <1>2 DEF Measures

\* A translation keeps every lane.
LEMMA TranslatedMeasures ==
  ASSUME NEW x, NEW n \in Nat, Measures(x, n)
  PROVE  Measures(EncodeTranslate(x), n)
<1> DEFINE y == EncodeTranslate(x)
<1>1. y = [i \in 1 .. n |-> y[i]]
  BY Zenon DEF EncodeTranslate, Measures
<1> QED BY <1>1, Measured

\* The registers that halves, doublewords and streams are put together to.
LEMMA RegistersMeasure ==
  /\ \A h : Measures(FromHalves(h), 16)
  /\ \A w : Measures(FromDwords(w), 16)
  /\ \A S : Measures(Weave(4, S), 32) /\ Measures(Weave(3, S), 24)
<1>1. ASSUME NEW h PROVE Measures(FromHalves(h), 16)
  <2> DEFINE y == FromHalves(h)
  <2>1. y = [i \in 1 .. 16 |-> y[i]]
    BY Zenon DEF FromHalves
  <2> HIDE DEF y
  <2>2. Measures(y, 16)
    BY <2>1, Measured
  <2> QED BY <2>2 DEF y
<1>2. ASSUME NEW w PROVE Measures(FromDwords(w), 16)
  <2> DEFINE y == FromDwords(w)
  <2>1. y = [i \in 1 .. 16 |-> y[i]]
    BY Zenon DEF FromDwords
  <2> HIDE DEF y
  <2>2. Measures(y, 16)
    BY <2>1, Measured
  <2> QED BY <2>2 DEF y
<1>3. ASSUME NEW S, NEW n \in {3, 4} PROVE Measures(Weave(n, S), 8 * n)
  <2> DEFINE y == Weave(n, S)
  <2>1. y = [i \in 1 .. 8 * n |-> y[i]]
    BY Zenon DEF Weave
  <2> HIDE DEF y
  <2>2. Measures(y, 8 * n)
    BY <2>1, Measured
  <2> QED BY <2>2 DEF y
<1>4. ASSUME NEW S PROVE Measures(Weave(4, S), 32) /\ Measures(Weave(3, S), 24)
  <2>1. Measures(Weave(4, S), 8 * 4) /\ Measures(Weave(3, S), 8 * 3)
    BY <1>3
  <2> QED BY <2>1
<1> QED BY <1>1, <1>2, <1>4

\* encode_reshuffle of x86 fills its register.
LEMMA ReshuffledMeasures ==
  ASSUME NEW x, NEW sel
  PROVE  Measures(EncodeReshuffle(x, sel), 16)
BY RegistersMeasure, SMT DEF EncodeReshuffle

\* An encoder's block is 16 characters, or 32, on every backend.
LEMMA EncodedMeasures ==
  ASSUME NEW x
  PROVE  /\ Measures(EncodeBlock12(x), 16)
         /\ Measures(EncodeBlock24(x), 32)
         /\ Measures(WasmEncodeValues(SplitBits(x)), 16)
         /\ Measures(NeonEncode(x), 32)
<1>1. Measures(EncodeBlock12(x), 16)
  BY TranslatedMeasures, ReshuffledMeasures DEF EncodeBlock12
<1>2. Measures(EncodeBlock24(x), 32)
  <2> DEFINE y == PermuteDwords(x, <<0, 0, 1, 2, 3, 4, 5, 6>>)
             low == EncodeTranslate(EncodeReshuffle(Low(y), [i \in 1 .. 16 |-> Twos[i] + 4]))
             high == EncodeTranslate(EncodeReshuffle(High(y), Twos))
  <2>1. Measures(low, 16) /\ Measures(high, 16)
    BY TranslatedMeasures, ReshuffledMeasures
  <2>2. EncodeBlock24(x) = low \o high
    BY DEF EncodeBlock24
  <2> HIDE DEF low, high
  <2>3. Measures(low \o high, 16 + 16)
    BY <2>1, Joined
  <2> QED BY <2>2, <2>3
<1>3. Measures(WasmEncodeValues(SplitBits(x)), 16)
  <2> DEFINE z == SplitBits(x)
             w == WasmEncodeValues(z)
  <2>1. DOMAIN z = 1 .. 16
    BY RegistersMeasure, SMT DEF SplitBits, Measures
  <2> HIDE DEF z
  <2>2. w = [i \in 1 .. 16 |-> w[i]]
    BY <2>1, ZenonT(60) DEF WasmEncodeValues
  <2> HIDE DEF w
  <2>3. Measures(w, 16)
    BY <2>2, Measured
  <2> QED BY <2>3 DEF z, w
<1>4. Measures(NeonEncode(x), 32)
  BY RegistersMeasure, SMT DEF NeonEncode
<1> QED BY <1>1, <1>2, <1>3, <1>4

\* The bytes of a decoder's block, before they are stored.
LEMMA DwordsMeasure ==
  ASSUME NEW x
  PROVE  /\ Measures(DecodeReshuffle(x), 16)
         /\ Measures(MergeBits(x), 12)
         /\ Measures(NeonDecode(x), 24)
<1>1. DOMAIN Triples = 1 .. 16
  BY DEF Triples
<1>2. ASSUME NEW y PROVE Measures(Shuffle(y, Triples), 16)
  <2> DEFINE z == Shuffle(y, Triples)
  <2>1. z = [i \in 1 .. 16 |-> z[i]]
    BY <1>1, Zenon DEF Shuffle
  <2> HIDE DEF z
  <2> QED BY <2>1, Measured DEF z
<1>3. Measures(DecodeReshuffle(x), 16)
  BY <1>2 DEF DecodeReshuffle
<1>4. Measures(MergeBits(x), 12)
  BY <1>2, Cut DEF MergeBits
<1>5. Measures(NeonDecode(x), 24)
  BY RegistersMeasure, SMT DEF NeonDecode
<1> QED BY <1>3, <1>4, <1>5

\* A decoder's block of x86 stores 12 bytes, or 24.
LEMMA DecodedMeasures ==
  ASSUME NEW x
  PROVE  Measures(DecodeBlock16(x), 12) /\ Measures(DecodeBlock32(x), 24)
<1>1. Measures(DecodeBlock16(x), 12)
  <2>1. Measures(SubSeq(DecodeReshuffle(x), 1, 12), 12)
    BY DwordsMeasure, Cut
  <2> QED BY <2>1 DEF DecodeBlock16
<1>2. Measures(DecodeBlock32(x), 24)
  <2> DEFINE y == DecodeReshuffle(Low(x)) \o DecodeReshuffle(High(x))
             z == PermuteDwords(y, <<0, 1, 2, 4, 5, 6, 7, 7>>)
  <2>1. z = [i \in 1 .. 32 |-> z[i]]
    BY Zenon DEF PermuteDwords
  <2>2. DecodeBlock32(x) = SubSeq(z, 1, 24)
    BY DEF DecodeBlock32
  <2> HIDE DEF z
  <2>3. Measures(z, 32)
    BY <2>1, Measured
  <2>4. Measures(SubSeq(z, 1, 24), 24)
    BY <2>3, Cut
  <2> QED BY <2>2, <2>4
<1> QED BY <1>1, <1>2

-----------------------------------------------------------------------------
(* The loops                                                                 *)

\* A load is as long as its register, also where src ends inside of it.
LEMMA LoadMeasures ==
  ASSUME NEW n \in Nat
  PROVE  Measures(Load(n), n)
<1> DEFINE x == Load(n)
<1>1. x = [i \in 1 .. n |-> x[i]]
  BY Zenon DEF Load
<1> HIDE DEF x
<1>2. Measures(x, n)
  BY <1>1, Measured
<1> QED BY <1>2 DEF x

LoopNow == Loops[loop]

\* Which blocks a backend's loops run, and what they ask for.
LEMMA LoopsAre ==
  ASSUME backend \in Backends, coding \in {"encode", "decode"}, loop \in 1 .. Len(Loops)
  PROVE  /\ backend # "scalar"
         /\ coding = "encode" =>
              \/ backend = "neon" /\ LoopNow = Wide(24)
              \/ backend # "neon" /\ LoopNow = Narrow(16)
              \/ backend = "avx2" /\ LoopNow = Wide(32)
         /\ coding = "decode" =>
              \/ backend # "neon" /\ LoopNow = Narrow(16)
              \/ backend \in {"neon", "avx2"} /\ LoopNow = Wide(32)
<1>1. backend \in {"scalar", "neon", "ssse3", "avx2", "wasm128"}
  BY CodecAssumption
<1>2. CASE coding = "encode"
  <2>1. Loops = EncodeLoops[backend]
    BY <1>2 DEF Loops
  <2>2. CASE backend = "scalar"
    <3>1. Loops = <<>>
      BY <2>1, <2>2 DEF EncodeLoops
    <3> QED BY <3>1
  <2>3. CASE backend = "neon"
    <3>1. Loops = <<Wide(24)>>
      BY <2>1, <2>3 DEF EncodeLoops
    <3> QED BY <1>2, <2>3, <3>1 DEF LoopNow
  <2>4. CASE backend \in {"ssse3", "wasm128"}
    <3>1. Loops = <<Narrow(16)>>
      BY <2>1, <2>4 DEF EncodeLoops
    <3> QED BY <1>2, <2>4, <3>1 DEF LoopNow
  <2>5. CASE backend = "avx2"
    <3>1. Loops = <<Wide(32), Narrow(16)>>
      BY <2>1, <2>5 DEF EncodeLoops
    <3>2. loop = 1 \/ loop = 2
      BY <3>1
    <3> QED BY <1>2, <2>5, <3>1, <3>2 DEF LoopNow
  <2> QED BY <1>1, <2>2, <2>3, <2>4, <2>5
<1>3. CASE coding = "decode"
  <2>1. Loops = DecodeLoops[backend]
    BY <1>3 DEF Loops
  <2>2. CASE backend = "scalar"
    <3>1. Loops = <<>>
      BY <2>1, <2>2 DEF DecodeLoops
    <3> QED BY <3>1
  <2>3. CASE backend = "neon"
    <3>1. Loops = <<Wide(32)>>
      BY <2>1, <2>3 DEF DecodeLoops
    <3> QED BY <1>3, <2>3, <3>1 DEF LoopNow
  <2>4. CASE backend \in {"ssse3", "wasm128"}
    <3>1. Loops = <<Narrow(16)>>
      BY <2>1, <2>4 DEF DecodeLoops
    <3> QED BY <1>3, <2>4, <3>1 DEF LoopNow
  <2>5. CASE backend = "avx2"
    <3>1. Loops = <<Wide(32), Narrow(16)>>
      BY <2>1, <2>5 DEF DecodeLoops
    <3>2. loop = 1 \/ loop = 2
      BY <3>1
    <3> QED BY <1>3, <2>5, <3>1, <3>2 DEF LoopNow
  <2> QED BY <1>1, <2>2, <2>3, <2>4, <2>5
<1> QED BY <1>2, <1>3

\* Threes become fours: what the blocks have taken and what they have written.
InStep == \E k \in Nat : consumed = 3 * k /\ Len(out) = 4 * k

\* No load has passed src and no store dst, and blocks have written in proportion.
CodecInv ==
  /\ coding \in {"encode", "decode"} /\ backend \in Backends
  /\ IsSeq(src) /\ Len(src) \in Nat /\ dstLen \in Nat /\ loop \in Nat
  /\ consumed \in 0 .. Len(src) /\ loadEnd \in 0 .. Len(src)
  /\ IsSeq(out) /\ Len(out) \in 0 .. dstLen
  /\ loop = 0 => consumed = 0 /\ out = <<>>
  /\ coding = "encode" =>
       InStep /\ (loop > 0 => B64Len(Len(src)) < dstLen)

\* A third of the bytes, rounded down, four characters each.
LEMMA WholeTriples ==
  ASSUME NEW n \in Nat, NEW k \in Nat, 3 * k <= n
  PROVE  4 * k <= B64Len(n)
<1>1. k <= n \div 3 /\ n \div 3 \in Nat
  BY SMT
<1>2. n % 3 \in 0 .. 2
  BY SMT
<1> DEFINE q == n \div 3
           r == n % 3
<1> HIDE DEF q, r
<1>3. B64Len(n) = q * 4 + (IF r = 0 THEN 0 ELSE r + 1)
  BY DEF B64Len, q, r
<1> QED BY <1>1, <1>2, <1>3, SMT DEF q, r

\* A block of an encoder fits, for dst has room for the whole text and its NUL.
LEMMA EncodeStepInv ==
  ASSUME CodecInv, EncodeStep
  PROVE  CodecInv'
<1> DEFINE reads == IF backend = "neon" THEN 24 ELSE Loops[loop].chars
           bytes == Loops[loop].bytes
           block == EncodeBlock(Load(reads))
<1>1. /\ coding = "encode" /\ result = Pending /\ loop \in 1 .. Len(Loops)
      /\ Len(src) - consumed >= Loops[loop].load
      /\ out' = out \o block /\ loadEnd' = consumed + reads
      /\ consumed' = consumed + bytes
      /\ UNCHANGED <<coding, backend, src, dstLen, loop, result>>
  BY DEF EncodeStep, InLoop, BlockFits
<1>2. \/ /\ reads = 24 /\ bytes = 24 /\ Loops[loop].load = 24 /\ backend = "neon"
      \/ /\ reads = 16 /\ bytes = 12 /\ Loops[loop].load = 16 /\ backend # "neon"
      \/ /\ reads = 32 /\ bytes = 24 /\ Loops[loop].load = 32 /\ backend = "avx2"
  BY <1>1, LoopsAre, SMTT(30) DEF CodecInv, LoopNow, Wide, Narrow
<1>3. Measures(block, IF bytes = 24 THEN 32 ELSE 16)
  <2> HIDE DEF bytes, reads
  <2>1. Measures(Load(reads), reads)
    BY <1>2, LoadMeasures
  <2>2. Len(Load(reads)) = reads
    BY <2>1 DEF Measures
  <2> QED BY <1>2, <2>2, EncodedMeasures DEF EncodeBlock
<1> HIDE DEF reads, bytes, block
<1>4. IsSeq(out') /\ Len(out') = Len(out) + (IF bytes = 24 THEN 32 ELSE 16)
  BY <1>1, <1>3, ConcatIs, SMTT(30) DEF CodecInv, Measures
<1>5. PICK k \in Nat : consumed = 3 * k /\ Len(out) = 4 * k
  BY <1>1 DEF CodecInv, InStep
<1>6. PICK j \in Nat : consumed' = 3 * j /\ Len(out') = 4 * j
  <2> DEFINE j == IF bytes = 24 THEN k + 8 ELSE k + 4
  <2>1. consumed' = 3 * j /\ Len(out') = 4 * j /\ j \in Nat
    BY <1>1, <1>2, <1>4, <1>5, SMTT(30)
  <2> HIDE DEF j
  <2> QED BY <2>1
<1>7. consumed' <= Len(src) /\ loadEnd' \in 0 .. Len(src)
  <2>1. Len(src) \in Nat /\ consumed \in 0 .. Len(src)
    BY DEF CodecInv
  <2>2. reads \in Nat /\ bytes <= reads /\ Len(src) - consumed >= reads /\ bytes \in Nat
    BY <1>1, <1>2
  <2> QED BY <1>1, <2>1, <2>2
<1>8. Len(out') <= B64Len(Len(src)) /\ B64Len(Len(src)) < dstLen /\ B64Len(Len(src)) \in Int
  <2>1. B64Len(Len(src)) \in Int
    BY DEF CodecInv, B64Len
  <2> QED BY <1>1, <1>6, <1>7, <2>1, WholeTriples DEF CodecInv
<1>9. InStep'
  BY <1>6 DEF InStep
<1>10. consumed' \in 0 .. Len(src) /\ Len(out') \in 0 .. dstLen
  BY <1>6, <1>7, <1>8 DEF CodecInv
<1>11. loop' # 0 /\ B64Len(Len(src')) < dstLen' /\ loadEnd' \in 0 .. Len(src')
  BY <1>1, <1>7, <1>8
<1> QED BY <1>1, <1>4, <1>9, <1>10, <1>11 DEF CodecInv

\* A block of a decoder fits, for the loop asked for as much room as it stores.
LEMMA DecodeStepInv ==
  ASSUME CodecInv, DecodeStep
  PROVE  CodecInv'
<1> DEFINE chars == Loops[loop].chars
           bytes == Loops[loop].bytes
           values == BlockValues(Load(chars))
           block == DecodeBlock(values)
<1>1. /\ coding = "decode" /\ result = Pending /\ loop \in 1 .. Len(Loops)
      /\ Len(src) - consumed >= Loops[loop].load
      /\ dstLen - Len(out) >= bytes
      /\ loadEnd' = consumed + chars
      /\ UNCHANGED <<coding, backend, src, dstLen, result>>
  BY DEF DecodeStep, InLoop, BlockFits
<1>2. \/ UNCHANGED <<consumed, out>> /\ loop' = Len(Loops) + 1
      \/ out' = out \o block /\ consumed' = consumed + chars /\ loop' = loop
  BY DEF DecodeStep
<1>3. \/ /\ chars = 16 /\ bytes = 12 /\ Loops[loop].load = 16 /\ backend # "neon"
      \/ /\ chars = 32 /\ bytes = 24 /\ Loops[loop].load = 32
         /\ backend \in {"neon", "avx2"}
  BY <1>1, LoopsAre DEF CodecInv, LoopNow, Wide, Narrow
<1>4. Measures(values, chars)
  <2> HIDE DEF chars
  <2> DEFINE x == Load(chars)
  <2>1. DOMAIN x = 1 .. chars /\ chars \in Nat
    BY <1>3, LoadMeasures DEF Measures
  <2> HIDE DEF x
  <2> DEFINE u == UnsignedDecodeValues(x)
             d == DecodeTranslate(x)
  <2>2. u = [i \in 1 .. chars |-> u[i]]
    BY <2>1, SMT DEF UnsignedDecodeValues
  <2>3. d = [i \in 1 .. chars |-> d[i]]
    BY <2>1, SMT DEF DecodeTranslate
  <2> HIDE DEF u, d
  <2>4. Measures(u, chars) /\ Measures(d, chars)
    BY <2>1, <2>2, <2>3, Measured
  <2> QED BY <2>4 DEF BlockValues, u, d, x
<1>5. Measures(block, bytes)
  <2> HIDE DEF bytes, chars, values
  <2>1. Len(values) = chars
    BY <1>4 DEF Measures
  <2> QED BY <1>3, <2>1, DwordsMeasure, DecodedMeasures DEF DecodeBlock
<1> HIDE DEF chars, bytes, block
<1>6. IsSeq(out') /\ Len(out') \in 0 .. dstLen
  <2>1. CASE out' = out
    BY <1>1, <2>1 DEF CodecInv
  <2>2. CASE out' = out \o block
    <3>1. IsSeq(out') /\ Len(out') = Len(out) + bytes
      BY <1>5, <2>2, ConcatIs DEF CodecInv, Measures
    <3> QED BY <1>1, <1>3, <3>1, SMTT(30) DEF CodecInv
  <2> QED BY <1>2, <2>1, <2>2
<1>7. consumed' \in 0 .. Len(src) /\ loadEnd' \in 0 .. Len(src)
  <2>1. Len(src) \in Nat /\ consumed \in 0 .. Len(src)
    BY DEF CodecInv
  <2>2. chars \in Nat /\ Len(src) - consumed >= chars
    BY <1>1, <1>3
  <2> QED BY <1>1, <1>2, <2>1, <2>2
<1>8. loop' \in Nat \ {0}
  BY <1>1, <1>2 DEF CodecInv
<1> QED BY <1>1, <1>6, <1>7, <1>8 DEF CodecInv

\* Every step of the codec keeps within the buffers.
LEMMA CodecNextInv ==
  ASSUME CodecInv, [CodecNext]_codecVars
  PROVE  CodecInv'
<1>1. CASE StartEncode
  <2>1. CASE dstLen <= B64Len(Len(src))
    <3>1. UNCHANGED codecVars \/ UNCHANGED <<coding, backend, src, dstLen, loop, consumed, out, loadEnd>>
      BY <1>1, <2>1 DEF StartEncode
    <3> QED BY <3>1 DEF CodecInv, InStep, codecVars
  <2>2. CASE ~(dstLen <= B64Len(Len(src)))
    <3>1. B64Len(Len(src)) < dstLen
      <4>1. B64Len(Len(src)) \in Int /\ dstLen \in Int
        BY DEF CodecInv, B64Len
      <4> QED BY <2>2, <4>1
    <3>2. loop' \in Nat \ {0}
      <4>1. Loops = EncodeLoops[backend]
        BY <1>1 DEF StartEncode, Loops
      <4>2. Len(Loops) \in Nat
        BY <4>1, CodecAssumption DEF EncodeLoops, CodecInv
      <4> QED BY <1>1, <2>2, <4>2 DEF StartEncode
    <3> QED BY <1>1, <3>1, <3>2 DEF StartEncode, CodecInv, InStep
  <2> QED BY <2>1, <2>2
<1>2. CASE StartDecode
  <2>1. loop' \in Nat \ {0}
    <3>1. Loops = DecodeLoops[backend]
      BY <1>2 DEF StartDecode, Loops
    <3>2. Len(Loops) \in Nat
      BY <3>1, CodecAssumption DEF DecodeLoops, CodecInv
    <3> QED BY <1>2, <3>2 DEF StartDecode
  <2> QED BY <1>2, <2>1 DEF StartDecode, CodecInv, InStep
<1>3. CASE EncodeStep
  BY <1>3, EncodeStepInv
<1>4. CASE DecodeStep
  BY <1>4, DecodeStepInv
<1>5. CASE LeaveLoop
  <2>1. loop' \in Nat \ {0} /\ loop > 0
    BY <1>5 DEF LeaveLoop, InLoop, CodecInv
  <2> QED BY <1>5, <2>1 DEF LeaveLoop, CodecInv, InStep
<1>6. CASE ScalarTail
  BY <1>6 DEF ScalarTail, CodecInv, InStep
<1>7. CASE UNCHANGED codecVars
  BY <1>7 DEF codecVars, CodecInv, InStep
<1> QED BY <1>1, <1>2, <1>3, <1>4, <1>5, <1>6, <1>7 DEF CodecNext

\* Nothing is loaded or stored at first.
LEMMA CodecStarts == CodecInit => CodecInv
<1> SUFFICES ASSUME CodecInit PROVE CodecInv
  OBVIOUS
<1>1. PICK p \in Plains \cup Texts : src = p.bytes /\ dstLen = p.capacity
  BY DEF CodecInit
<1>2. p \in [bytes : Seq(Byte), capacity : Nat]
  BY <1>1, CodecAssumption
<1>3. src \in Seq(Byte) /\ dstLen \in Nat
  BY <1>1, <1>2
<1>4. IsSeq(src) /\ Len(src) \in Nat
  BY <1>3 DEF IsSeq
<1>5. out = <<>> /\ consumed = 0 /\ loadEnd = 0 /\ loop = 0
  BY DEF CodecInit
<1>6. IsSeq(out) /\ Len(out) = 0
  <2>1. out \in Seq(Byte)
    BY <1>5
  <2> QED BY <1>5, <2>1 DEF IsSeq
<1>7. InStep
  BY <1>5, <1>6 DEF InStep
<1> QED BY <1>3, <1>4, <1>5, <1>6, <1>7 DEF CodecInit, CodecInv

\* The invariant holds for every backend, every input and every capacity.
THEOREM CodecInductive == CodecSpec => []CodecInv
BY CodecStarts, CodecNextInv, PTL DEF CodecSpec

\* No block of any backend reads past src or writes past dst, for every length of input
\* and every capacity: the conditions of the block loops are enough, although the
\* encoders load more than they take.
THEOREM CodecInBounds == CodecSpec => []StaysInBounds
<1>1. CodecInv => StaysInBounds
  <2> SUFFICES ASSUME CodecInv PROVE StaysInBounds
    OBVIOUS
  <2>1. loadEnd <= Len(src) /\ Len(out) <= dstLen
    BY DEF CodecInv
  <2>2. ASSUME coding = "encode", loop > 0 PROVE Len(out) < dstLen
    <3>1. PICK k \in Nat : consumed = 3 * k /\ Len(out) = 4 * k
      BY <2>2 DEF CodecInv, InStep
    <3>2. Len(src) \in Nat /\ 3 * k <= Len(src) /\ dstLen \in Nat
      BY <3>1 DEF CodecInv
    <3>3. 4 * k <= B64Len(Len(src))
      BY <3>2, WholeTriples
    <3>4. B64Len(Len(src)) \in Int
      BY <3>2 DEF B64Len
    <3> QED BY <2>2, <3>1, <3>2, <3>3, <3>4 DEF CodecInv
  <2> QED BY <2>1, <2>2 DEF StaysInBounds
<1> QED BY <1>1, CodecInductive, PTL

-----------------------------------------------------------------------------
(* The alphabet, as the scalar code and the vector code compute it           *)

\* Words without a common bit add up.
LEMMA Ors ==
  /\ \A x, y \in Byte : (256 * x | y) = 256 * x + y /\ (y | 256 * x) = y + 256 * x
  /\ \A x, y \in 0 .. 15 : (16 * x | y) = 16 * x + y
  /\ \A x \in 0 .. 63, y \in 0 .. 3 : (4 * x | y) = 4 * x + y
  /\ \A x : Short(x) => (x | 0) = x /\ (0 | x) = x
<1>0. 0 \in Digit
  BY DEF Digit
<1>1. ASSUME NEW x \in Byte
      PROVE  x % 16 \in Digit /\ x \div 16 \in Digit /\ x = (x % 16) + 16 * (x \div 16)
  BY DEF Byte, Digit
<1>2. ASSUME NEW x \in Byte, NEW y \in Byte
      PROVE  (256 * x | y) = 256 * x + y /\ (y | 256 * x) = y + 256 * x
  <2> DEFINE a == x % 16
             b == x \div 16
             c == y % 16
             e == y \div 16
             f == FourDigits(0, 0, a, b)
             g == FourDigits(c, e, 0, 0)
  <2>1. a \in Digit /\ b \in Digit /\ c \in Digit /\ e \in Digit
        /\ x = a + 16 * b /\ y = c + 16 * e
    BY <1>1
  <2> HIDE DEF a, b, c, e
  <2>2. /\ f \in Digits /\ f[0] = 0 /\ f[1] = 0 /\ f[2] = a /\ f[3] = b
        /\ Value(f) = 0 + 16 * 0 + 256 * a + 4096 * b
    <3>1. a \in Digit /\ b \in Digit
      BY <2>1
    <3> QED BY <1>0, <3>1, FourDigitsAre
  <2>3. /\ g \in Digits /\ g[0] = c /\ g[1] = e /\ g[2] = 0 /\ g[3] = 0
        /\ Value(g) = c + 16 * e + 256 * 0 + 4096 * 0
    <3>1. c \in Digit /\ e \in Digit
      BY <2>1
    <3> QED BY <1>0, <3>1, FourDigitsAre
  <2> HIDE DEF f, g
  <2>4. Value(f) = 256 * x /\ Value(g) = y
    BY <2>1, <2>2, <2>3 DEF Digit
  <2>5. /\ OrTable[0][c] = c /\ OrTable[0][e] = e /\ OrTable[a][0] = a /\ OrTable[b][0] = b
        /\ OrTable[c][0] = c /\ OrTable[e][0] = e /\ OrTable[0][a] = a /\ OrTable[0][b] = b
    BY <2>1, OrDigit
  <2>6. (Value(f) | Value(g)) = c + 16 * e + 256 * a + 4096 * b
    BY <2>2, <2>3, <2>5, OnDigits
  <2>7. (Value(g) | Value(f)) = c + 16 * e + 256 * a + 4096 * b
    BY <2>2, <2>3, <2>5, OnDigits
  <2>8. c + 16 * e + 256 * a + 4096 * b = 256 * x + y /\ 256 * x + y = y + 256 * x
    BY <2>1 DEF Digit
  <2> QED BY <2>4, <2>6, <2>7, <2>8
<1>3. ASSUME NEW x \in 0 .. 15, NEW y \in 0 .. 15 PROVE (16 * x | y) = 16 * x + y
  <2> DEFINE f == FourDigits(0, x, 0, 0)
             g == FourDigits(y, 0, 0, 0)
  <2>1. x \in Digit /\ y \in Digit
    BY DEF Digit
  <2>2. /\ f \in Digits /\ f[0] = 0 /\ f[1] = x /\ f[2] = 0 /\ f[3] = 0
        /\ Value(f) = 0 + 16 * x + 256 * 0 + 4096 * 0
    BY <1>0, <2>1, FourDigitsAre
  <2>3. /\ g \in Digits /\ g[0] = y /\ g[1] = 0 /\ g[2] = 0 /\ g[3] = 0
        /\ Value(g) = y + 16 * 0 + 256 * 0 + 4096 * 0
    BY <1>0, <2>1, FourDigitsAre
  <2> HIDE DEF f, g
  <2>4. Value(f) = 16 * x /\ Value(g) = y
    BY <2>2, <2>3
  <2>5. OrTable[0][y] = y /\ OrTable[x][0] = x /\ OrTable[0][0] = 0
    BY <1>0, <2>1, OrDigit
  <2>6. (Value(f) | Value(g)) = y + 16 * x + 256 * 0 + 4096 * 0
    BY <2>2, <2>3, <2>5, OnDigits
  <2> QED BY <2>4, <2>6
<1>4. ASSUME NEW x \in 0 .. 63, NEW y \in 0 .. 3 PROVE (4 * x | y) = 4 * x + y
  <2> DEFINE q == x % 4
             b == x \div 4
             a == 4 * q
             f == FourDigits(a, b, 0, 0)
             g == FourDigits(y, 0, 0, 0)
  <2>1. q \in 0 .. 3 /\ b \in Digit /\ x = q + 4 * b /\ y \in Digit /\ a \in Digit
    BY DEF Digit
  <2> HIDE DEF q, b
  <2>2. /\ f \in Digits /\ f[0] = a /\ f[1] = b /\ f[2] = 0 /\ f[3] = 0
        /\ Value(f) = a + 16 * b + 256 * 0 + 4096 * 0
    <3>1. a \in Digit /\ b \in Digit
      BY <2>1
    <3> HIDE DEF a
    <3> QED BY <1>0, <3>1, FourDigitsAre
  <2>3. /\ g \in Digits /\ g[0] = y /\ g[1] = 0 /\ g[2] = 0 /\ g[3] = 0
        /\ Value(g) = y + 16 * 0 + 256 * 0 + 4096 * 0
    BY <1>0, <2>1, FourDigitsAre
  <2> HIDE DEF f, g
  <2>4. Value(f) = 4 * x /\ Value(g) = y
    BY <2>1, <2>2, <2>3 DEF Digit
  <2>5. OrTable[a][y] = a + y
    BY <1>0, <2>1, OrDigit
  <2>6. OrTable[b][0] = b /\ OrTable[0][0] = 0
    BY <1>0, <2>1, OrDigit
  <2> HIDE DEF a
  <2>7. (Value(f) | Value(g)) = a + y + 16 * b + 256 * 0 + 4096 * 0
    BY <2>2, <2>3, <2>5, <2>6, OnDigits
  <2>8. a + y + 16 * b + 256 * 0 + 4096 * 0 = 4 * x + y
    BY <2>1 DEF Digit, a
  <2> QED BY <2>4, <2>7, <2>8
<1>5. ASSUME NEW x, Short(x) PROVE (x | 0) = x /\ (0 | x) = x
  <2>1. PICK d \in Digits : x = Value(d)
    BY <1>5, HasDigits
  <2> DEFINE nil == FourDigits(0, 0, 0, 0)
  <2>2. /\ nil \in Digits /\ Value(nil) = 0
        /\ nil[0] = 0 /\ nil[1] = 0 /\ nil[2] = 0 /\ nil[3] = 0
    BY <1>0, FourDigitsAre
  <2> HIDE DEF nil
  <2>3. \A i \in 0 .. 3 : d[i] \in Digit
    BY DEF Digits
  <2>4. /\ OrTable[d[0]][0] = d[0] /\ OrTable[d[1]][0] = d[1]
        /\ OrTable[d[2]][0] = d[2] /\ OrTable[d[3]][0] = d[3]
        /\ OrTable[0][d[0]] = d[0] /\ OrTable[0][d[1]] = d[1]
        /\ OrTable[0][d[2]] = d[2] /\ OrTable[0][d[3]] = d[3]
    BY <2>3, OrDigit
  <2>5. (Value(d) | Value(nil)) = Value(d) /\ (Value(nil) | Value(d)) = Value(d)
    BY <2>2, <2>4, OnDigits DEF Value
  <2> QED BY <2>1, <2>2, <2>5
<1> QED BY <1>2, <1>3, <1>4, <1>5

\* Bytes stay bytes.
LEMMA XorOfBytes ==
  ASSUME NEW x \in Byte, NEW y \in Byte
  PROVE  (x ^^ y) \in Byte
<1>1. ASSUME NEW z \in Byte, NEW f \in Digits, z = Value(f) PROVE f[2] = 0 /\ f[3] = 0
  <2> DEFINE a == f[0]
             b == f[1]
             c == f[2]
             e == f[3]
  <2>1. a \in 0 .. 15 /\ b \in 0 .. 15 /\ c \in 0 .. 15 /\ e \in 0 .. 15
    BY DEF Digits, Digit
  <2>2. z = a + 16 * b + 256 * c + 4096 * e
    BY <1>1 DEF Value
  <2> HIDE DEF a, b, c, e
  <2>3. c = 0 /\ e = 0
    BY <2>1, <2>2 DEF Byte
  <2> QED BY <2>3 DEF c, e
<1>2. Short(x) /\ Short(y)
  BY DEF Short, Byte
<1>3. PICK d \in Digits : x = Value(d)
  BY <1>2, HasDigits
<1>4. PICK e \in Digits : y = Value(e)
  BY <1>2, HasDigits
<1> DEFINE f == DigitPairs(XorTable, d, e)
<1>5. (x ^^ y) = Value(f) /\ f \in Digits
  BY <1>3, <1>4, WordByWord
<1>6. f[2] = 0 /\ f[3] = 0
  <2>1. d[2] = 0 /\ d[3] = 0 /\ e[2] = 0 /\ e[3] = 0
    BY <1>1, <1>3, <1>4
  <2>2. XorTable[0][0] = 0
    <3>1. 0 \in Digit
      BY DEF Digit
    <3> QED BY <3>1, XorDigit
  <2> QED BY <2>1, <2>2 DEF DigitPairs
<1>7. f[0] \in 0 .. 15 /\ f[1] \in 0 .. 15
  BY <1>5 DEF Digits, Digit
<1> HIDE DEF f
<1> QED BY <1>5, <1>6, <1>7 DEF Value, Byte

\* The comparisons without a branch give masks.
LEMMA Comparisons ==
  ASSUME NEW x \in Byte, NEW y \in Byte
  PROVE  /\ Gt(x, y) = IF x > y THEN 255 ELSE 0
         /\ Ge(x, y) = IF x >= y THEN 255 ELSE 0
         /\ Lt(x, y) = IF x < y THEN 255 ELSE 0
         /\ Le(x, y) = IF x <= y THEN 255 ELSE 0
         /\ Eq(x, y) = IF x = y THEN 255 ELSE 0
<1>1. Short(255) /\ Short(0) /\ (255 & 255) = 255 /\ (0 & 255) = 0
  <2>1. Short(255) /\ Short(0)
    BY DEF Short
  <2> QED BY <2>1, Masks
<1>2. ASSUME NEW u \in Byte, NEW v \in Byte PROVE Gt(u, v) = IF u > v THEN 255 ELSE 0
  <2>1. ShiftRight(Sub(v, u), 8) = IF u > v THEN 255 ELSE 0
    <3>1. CASE u > v
      <4>1. v - u + 65536 \in 65281 .. 65535 /\ (v - u) % 65536 = v - u + 65536
        BY <3>1 DEF Byte
      <4>2. Sub(v, u) = v - u + 65536
        BY <4>1 DEF Sub, Word16
      <4>3. (v - u + 65536) \div 256 = 255
        BY <4>1
      <4> QED BY <3>1, <4>2, <4>3 DEF ShiftRight
    <3>2. CASE ~(u > v)
      <4>1. v - u \in 0 .. 255 /\ (v - u) % 65536 = v - u
        BY <3>2 DEF Byte
      <4>2. Sub(v, u) = v - u
        BY <4>1 DEF Sub, Word16
      <4>3. (v - u) \div 256 = 0
        BY <4>1
      <4> QED BY <3>2, <4>2, <4>3 DEF ShiftRight
    <3> QED BY <3>1, <3>2
  <2> QED BY <1>1, <2>1 DEF Gt
<1>3. Gt(x, y) = (IF x > y THEN 255 ELSE 0) /\ Gt(y, x) = (IF y > x THEN 255 ELSE 0)
  BY <1>2
<1>4. Ge(x, y) = IF x >= y THEN 255 ELSE 0
  BY <1>3, Xors DEF Ge, Byte
<1>5. Lt(x, y) = IF x < y THEN 255 ELSE 0
  BY <1>3 DEF Lt, Byte
<1>6. Le(x, y) = IF x <= y THEN 255 ELSE 0
  BY <1>3, Xors DEF Le, Ge, Byte
<1>7. Eq(x, y) = IF x = y THEN 255 ELSE 0
  <2> DEFINE z == x ^^ y
  <2>1. z \in Byte /\ (z = 0 <=> x = y)
    <3>1. Short(x) /\ Short(y)
      BY DEF Short, Byte
    <3> QED BY <3>1, XorOfBytes, Xors
  <2> HIDE DEF z
  <2>2. ShiftRight(Sub(0, z), 8) = IF z = 0 THEN 0 ELSE 255
    <3>1. CASE z = 0
      <4>1. Sub(0, z) = 0
        BY <3>1 DEF Sub, Word16
      <4> QED BY <3>1, <4>1 DEF ShiftRight
    <3>2. CASE z # 0
      <4>1. 65536 - z \in 65281 .. 65535 /\ (0 - z) % 65536 = 65536 - z
        BY <2>1, <3>2 DEF Byte
      <4>2. Sub(0, z) = 65536 - z
        BY <4>1 DEF Sub, Word16
      <4>3. (65536 - z) \div 256 = 255
        BY <4>1
      <4> QED BY <3>2, <4>2, <4>3 DEF ShiftRight
    <3> QED BY <3>1, <3>2
  <2>3. Eq(x, y) = (ShiftRight(Sub(0, z), 8) & 255) ^^ 255
    BY DEF Eq, z
  <2> QED BY <1>1, <2>1, <2>2, <2>3, Xors
<1> QED BY <1>3, <1>4, <1>5, <1>6, <1>7

\* The branch-free conversion of a value of six bits is the alphabet.
LEMMA ScalarAlphabet ==
  ASSUME NEW v \in 0 .. 63
  PROVE  CharOf[v] = Alphabet[v] /\ Alphabet[v] \in Byte
<1>1. v \in Byte /\ 26 \in Byte /\ 52 \in Byte /\ 62 \in Byte /\ 63 \in Byte
  BY DEF Byte
<1>2. /\ Lt(v, 26) = IF v < 26 THEN 255 ELSE 0
      /\ Ge(v, 26) = IF v >= 26 THEN 255 ELSE 0
      /\ Lt(v, 52) = IF v < 52 THEN 255 ELSE 0
      /\ Ge(v, 52) = IF v >= 52 THEN 255 ELSE 0
      /\ Lt(v, 62) = IF v < 62 THEN 255 ELSE 0
      /\ Eq(v, 62) = IF v = 62 THEN 255 ELSE 0
      /\ Eq(v, 63) = IF v = 63 THEN 255 ELSE 0
  BY <1>1, Comparisons
<1>3. Short(0) /\ Short(255) /\ Short(43) /\ Short(47) /\ Short(v + 65) /\ Short(v + 71)
  BY DEF Short
<1>4. (255 & 255) = 255 /\ (255 & 0) = 0 /\ (0 & 255) = 0 /\ (0 & 0) = 0
  BY <1>3, Masks
<1>5. (0 & 43) = 0 /\ (255 & 43) = 43 /\ (0 & 47) = 0 /\ (255 & 47) = 47
  BY <1>3, Masks
<1>6. /\ (0 & (v + 65)) = 0 /\ (0 & (v + 71)) = 0
      /\ (255 & (v + 65)) = v + 65 /\ (255 & (v + 71)) = v + 71
  BY <1>3, Masks
<1>7. (0 & Sub(v, 4)) = 0 /\ (v >= 4 => (255 & Sub(v, 4)) = v - 4)
  <2>1. Sub(v, 4) = IF v >= 4 THEN v - 4 ELSE v + 65532
    BY DEF Sub, Word16
  <2>2. Short(Sub(v, 4))
    BY <2>1 DEF Short
  <2>3. (0 & Sub(v, 4)) = 0 /\ (255 & Sub(v, 4)) = Sub(v, 4) % 256
    BY <2>2, Masks
  <2> QED BY <2>1, <2>3
<1> DEFINE upper == Lt(v, 26) & (v + 65)
           lower == (Ge(v, 26) & Lt(v, 52)) & (v + 71)
           digit == (Ge(v, 52) & Lt(v, 62)) & Sub(v, 4)
           plus  == Eq(v, 62) & 43
           slash == Eq(v, 63) & 47
<1>8. upper = IF v < 26 THEN v + 65 ELSE 0
  BY <1>2, <1>6
<1>9. lower = IF v >= 26 /\ v < 52 THEN v + 71 ELSE 0
  BY <1>2, <1>4, <1>6
<1>10. digit = IF v >= 52 /\ v < 62 THEN v - 4 ELSE 0
  BY <1>2, <1>4, <1>7
<1>11. plus = (IF v = 62 THEN 43 ELSE 0) /\ slash = (IF v = 63 THEN 47 ELSE 0)
  BY <1>2, <1>5
<1>12. CharOf[v] = (((upper | lower) | digit) | plus) | slash
  BY DEF CharOf, B64ByteToChar
<1> HIDE DEF upper, lower, digit, plus, slash
<1>13. Alphabet[v] = IF v < 26 THEN v + 65 ELSE IF v < 52 THEN v + 71
                     ELSE IF v < 62 THEN v - 4 ELSE IF v = 62 THEN 43 ELSE 47
  BY DEF Alphabet
<1>14. ASSUME NEW w, Short(w) PROVE (w | 0) = w /\ (0 | w) = w
  BY <1>14, Ors
<1>15. (0 | 0) = 0
  BY <1>3, <1>14
<1>16. CASE v < 26
  <2>1. upper = v + 65 /\ lower = 0 /\ digit = 0 /\ plus = 0 /\ slash = 0
    BY <1>8, <1>9, <1>10, <1>11, <1>16
  <2> QED BY <1>3, <1>12, <1>13, <1>14, <1>16, <2>1 DEF Byte
<1>17. CASE v >= 26 /\ v < 52
  <2>1. upper = 0 /\ lower = v + 71 /\ digit = 0 /\ plus = 0 /\ slash = 0
    BY <1>8, <1>9, <1>10, <1>11, <1>17
  <2> QED BY <1>3, <1>12, <1>13, <1>14, <1>17, <2>1 DEF Byte
<1>18. CASE v >= 52 /\ v < 62
  <2>1. upper = 0 /\ lower = 0 /\ digit = v - 4 /\ plus = 0 /\ slash = 0
    BY <1>8, <1>9, <1>10, <1>11, <1>18
  <2>2. Short(v - 4)
    BY <1>18 DEF Short
  <2> QED BY <1>12, <1>13, <1>14, <1>15, <1>18, <2>1, <2>2 DEF Byte
<1>19. CASE v = 62
  <2>1. upper = 0 /\ lower = 0 /\ digit = 0 /\ plus = 43 /\ slash = 0
    BY <1>8, <1>9, <1>10, <1>11, <1>19
  <2> QED BY <1>3, <1>12, <1>13, <1>14, <1>15, <1>19, <2>1 DEF Byte
<1>20. CASE v = 63
  <2>1. upper = 0 /\ lower = 0 /\ digit = 0 /\ plus = 0 /\ slash = 47
    BY <1>8, <1>9, <1>10, <1>11, <1>20
  <2> QED BY <1>3, <1>12, <1>13, <1>14, <1>15, <1>20, <2>1 DEF Byte
<1> QED BY <1>16, <1>17, <1>18, <1>19, <1>20

\* The members of a concatenation.
LEMMA ConcatAt ==
  ASSUME NEW s, NEW t, IsSeq(s), IsSeq(t), NEW i \in 1 .. Len(s) + Len(t)
  PROVE  (s \o t)[i] = IF i <= Len(s) THEN s[i] ELSE t[i - Len(s)]
<1>1. PICK S : s \in Seq(S)
  BY DEF IsSeq
<1>2. PICK T : t \in Seq(T)
  BY DEF IsSeq
<1>3. s \in Seq(S \cup T) /\ t \in Seq(S \cup T)
  BY <1>1, <1>2
<1> QED BY <1>3

\* The members of three sequences, one after the other.
LEMMA JoinedAt ==
  ASSUME NEW s, NEW t, NEW u, IsSeq(s), IsSeq(t), IsSeq(u),
         NEW i \in 1 .. Len(s) + Len(t) + Len(u)
  PROVE  ((s \o t) \o u)[i] = IF i <= Len(s) THEN s[i]
                              ELSE IF i <= Len(s) + Len(t) THEN t[i - Len(s)]
                              ELSE u[i - Len(s) - Len(t)]
<1>1. IsSeq(s \o t) /\ Len(s \o t) = Len(s) + Len(t)
  BY ConcatIs
<1>2. Len(s) \in Nat /\ Len(t) \in Nat /\ Len(u) \in Nat
  BY DEF IsSeq
<1>3. ((s \o t) \o u)[i] = IF i <= Len(s) + Len(t) THEN (s \o t)[i]
                           ELSE u[i - (Len(s) + Len(t))]
  BY <1>1, <1>2, ConcatAt
<1>4. CASE i <= Len(s) + Len(t)
  <2>1. i \in 1 .. Len(s) + Len(t)
    BY <1>2, <1>4
  <2>2. (s \o t)[i] = IF i <= Len(s) THEN s[i] ELSE t[i - Len(s)]
    BY <2>1, ConcatAt
  <2> QED BY <1>3, <1>4, <2>2
<1>5. CASE i > Len(s) + Len(t)
  <2>1. /\ i - (Len(s) + Len(t)) = i - Len(s) - Len(t)
        /\ ~(i <= Len(s)) /\ ~(i <= Len(s) + Len(t))
    BY <1>2, <1>5
  <2> QED BY <1>3, <2>1
<1> QED BY <1>2, <1>4, <1>5

\* What the alphabet is, by ranges.
LEMMA AlphabetIs ==
  ASSUME NEW v \in 0 .. 63
  PROVE  Alphabet[v] = IF v < 26 THEN v + 65 ELSE IF v < 52 THEN v + 71
                       ELSE IF v < 62 THEN v - 4 ELSE IF v = 62 THEN 43 ELSE 47
  BY DEF Alphabet

Sextets(x) == \A i \in DOMAIN x : x[i] \in 0 .. 63
Lettered(x) == [i \in DOMAIN x |-> Alphabet[x[i]]]

\* The offsets of x86 lead to the alphabet, for the comparison's -1 counts as one.
LEMMA X86Alphabet ==
  ASSUME NEW x, Sextets(x)
  PROVE  EncodeTranslate(x) = Lettered(x)
<1> DEFINE lut == <<65, 71>> \o [i \in 1 .. 10 |-> -4] \o <<-19, -16, 0, 0>>
           index(v) == SubSaturating(v, 51) + IF v > 25 THEN 1 ELSE 0
<1>1. EncodeTranslate(x) = [i \in DOMAIN x |-> (x[i] + lut[index(x[i]) + 1]) % 256]
  BY DEF EncodeTranslate
<1>2. ASSUME NEW k \in 1 .. 16
      PROVE  lut[k] = IF k = 1 THEN 65 ELSE IF k = 2 THEN 71 ELSE IF k <= 12 THEN -4
                      ELSE IF k = 13 THEN -19 ELSE IF k = 14 THEN -16 ELSE 0
  <2>1. PICK s : s = <<65, 71>>
    OBVIOUS
  <2>2. PICK ten : ten = [i \in 1 .. 10 |-> -4]
    OBVIOUS
  <2>3. PICK t : t = <<-19, -16, 0, 0>>
    OBVIOUS
  <2>4. IsSeq(s) /\ Len(s) = 2 /\ s[1] = 65 /\ s[2] = 71
    <3>1. s \in Seq(Int)
      BY <2>1
    <3> QED BY <2>1, <3>1 DEF IsSeq
  <2>5. IsSeq(ten) /\ Len(ten) = 10 /\ \A j \in 1 .. 10 : ten[j] = -4
    <3>1. ten = [j \in 1 .. 10 |-> ten[j]]
      BY <2>2
    <3>2. \A j \in 1 .. 10 : ten[j] = -4
      BY <2>2
    <3>3. 10 \in Nat
      OBVIOUS
    <3>4. IsSeq(ten) /\ Len(ten) = 10
      BY <3>1, <3>3, FunctionIsSeq, Zenon
    <3> QED BY <3>2, <3>4, Zenon
  <2>6. IsSeq(t) /\ Len(t) = 4 /\ t[1] = -19 /\ t[2] = -16 /\ t[3] = 0 /\ t[4] = 0
    <3>1. t \in Seq(Int)
      BY <2>3
    <3> QED BY <2>3, <3>1 DEF IsSeq
  <2>7. lut = (s \o ten) \o t
    BY <2>1, <2>2, <2>3, Zenon
  <2>8. lut[k] = IF k <= 2 THEN s[k] ELSE IF k <= 12 THEN ten[k - 2] ELSE t[k - 2 - 10]
    <3>1. k \in 1 .. Len(s) + Len(ten) + Len(t)
      BY <2>4, <2>5, <2>6
    <3>2. IsSeq(s) /\ IsSeq(ten) /\ IsSeq(t)
      BY <2>4, <2>5, <2>6
    <3>3. ((s \o ten) \o t)[k] = IF k <= Len(s) THEN s[k]
                                ELSE IF k <= Len(s) + Len(ten) THEN ten[k - Len(s)]
                                ELSE t[k - Len(s) - Len(ten)]
      BY <3>1, <3>2, JoinedAt, ZenonT(40)
    <3>4. Len(s) = 2 /\ Len(ten) = 10 /\ Len(s) + Len(ten) = 12
      BY <2>4, <2>5, <2>6
    <3> HIDE DEF lut
    <3> QED BY <2>7, <3>3, <3>4
  <2> HIDE DEF lut
  <2>9. k - 2 - 10 = k - 12 /\ (k > 2 /\ k <= 12 => k - 2 \in 1 .. 10)
    OBVIOUS
  <2> QED BY <2>4, <2>5, <2>6, <2>8, <2>9
<1> HIDE DEF lut
<1>3. ASSUME NEW v \in 0 .. 63
      PROVE  (v + lut[index(v) + 1]) % 256 = Alphabet[v]
  <2>1. CASE v < 26
    <3>1. index(v) + 1 = 1
      BY <2>1 DEF SubSaturating
    <3>2. lut[1] = 65
      BY <1>2
    <3> QED BY <2>1, <3>1, <3>2, AlphabetIs
  <2>2. CASE v >= 26 /\ v < 52
    <3>1. index(v) + 1 = 2
      BY <2>2 DEF SubSaturating
    <3>2. lut[2] = 71
      BY <1>2
    <3> QED BY <2>2, <3>1, <3>2, AlphabetIs
  <2>3. CASE v >= 52 /\ v < 62
    <3>1. index(v) + 1 = v - 49 /\ v - 49 \in 3 .. 12
      BY <2>3 DEF SubSaturating
    <3>2. lut[v - 49] = -4
      BY <1>2, <3>1
    <3> QED BY <2>3, <3>1, <3>2, AlphabetIs
  <2>4. CASE v = 62
    <3>1. index(v) + 1 = 13
      BY <2>4 DEF SubSaturating
    <3>2. lut[13] = -19
      BY <1>2
    <3> QED BY <2>4, <3>1, <3>2, AlphabetIs
  <2>5. CASE v = 63
    <3>1. index(v) + 1 = 14
      BY <2>5 DEF SubSaturating
    <3>2. lut[14] = -16
      BY <1>2
    <3> QED BY <2>5, <3>1, <3>2, AlphabetIs
  <2> QED BY <2>1, <2>2, <2>3, <2>4, <2>5
<1> HIDE DEF index
<1>4. \A i \in DOMAIN x : (x[i] + lut[index(x[i]) + 1]) % 256 = Alphabet[x[i]]
  BY <1>3 DEF Sextets
<1> QED BY <1>1, <1>4, ZenonT(60) DEF Lettered

\* The offsets of wasm32 lead to the alphabet, for 13 or-ed with 0 selects the fourteenth.
LEMMA WasmAlphabet ==
  ASSUME NEW x, Sextets(x)
  PROVE  WasmEncodeValues(x) = Lettered(x)
<1> DEFINE shift == <<97 - 26>> \o [i \in 1 .. 10 |-> (48 - 52) % 256]
                      \o <<(43 - 62) % 256, (47 - 63) % 256, 65, 128, 128>>
           index(v) == SubSaturating(v, 51) | (IF v < 26 THEN 13 ELSE 0)
<1>1. WasmEncodeValues(x) = [i \in DOMAIN x |-> (x[i] + shift[index(x[i]) + 1]) % 256]
  BY DEF WasmEncodeValues
<1>2. ASSUME NEW k \in 1 .. 14
      PROVE  shift[k] = IF k = 1 THEN 71 ELSE IF k <= 11 THEN 252
                        ELSE IF k = 12 THEN 237 ELSE IF k = 13 THEN 240 ELSE 65
  <2>1. /\ 97 - 26 = 71 /\ (43 - 62) % 256 = 237 /\ (47 - 63) % 256 = 240
        /\ (48 - 52) % 256 = 252
    <3> DEFINE u == 43 - 62
               v == 47 - 63
               w == 48 - 52
    <3>1. u \in -255 .. -1 /\ 256 + u = 237 /\ v \in -255 .. -1 /\ 256 + v = 240
          /\ w \in -255 .. -1 /\ 256 + w = 252 /\ 97 - 26 = 71
      OBVIOUS
    <3> HIDE DEF u, v, w
    <3>2. u % 256 = 237 /\ v % 256 = 240 /\ w % 256 = 252
      BY <3>1
    <3> QED BY <3>1, <3>2, ZenonT(60) DEF u, v, w
  <2>2. PICK s : s = <<71>>
    OBVIOUS
  <2>3. PICK ten : ten = [i \in 1 .. 10 |-> 252]
    OBVIOUS
  <2>4. PICK t : t = <<237, 240, 65, 128, 128>>
    OBVIOUS
  <2>5. IsSeq(s) /\ Len(s) = 1 /\ s[1] = 71
    <3>1. s \in Seq(Int)
      BY <2>2
    <3> QED BY <2>2, <3>1 DEF IsSeq
  <2>6. IsSeq(ten) /\ Len(ten) = 10 /\ \A j \in 1 .. 10 : ten[j] = 252
    <3>1. ten = [j \in 1 .. 10 |-> ten[j]]
      BY <2>3
    <3>2. \A j \in 1 .. 10 : ten[j] = 252
      BY <2>3
    <3>3. 10 \in Nat
      OBVIOUS
    <3>4. IsSeq(ten) /\ Len(ten) = 10
      BY <3>1, <3>3, FunctionIsSeq, Zenon
    <3> QED BY <3>2, <3>4, Zenon
  <2>7. IsSeq(t) /\ Len(t) = 5 /\ t[1] = 237 /\ t[2] = 240 /\ t[3] = 65
    <3>1. t \in Seq(Int)
      BY <2>4
    <3> QED BY <2>4, <3>1 DEF IsSeq
  <2>8. shift = (s \o ten) \o t
    BY <2>1, <2>2, <2>3, <2>4, ZenonT(60)
  <2>9. shift[k] = IF k <= 1 THEN s[k] ELSE IF k <= 11 THEN ten[k - 1] ELSE t[k - 1 - 10]
    <3>1. k \in 1 .. Len(s) + Len(ten) + Len(t)
      BY <2>5, <2>6, <2>7
    <3>2. IsSeq(s) /\ IsSeq(ten) /\ IsSeq(t)
      BY <2>5, <2>6, <2>7
    <3>3. ((s \o ten) \o t)[k] = IF k <= Len(s) THEN s[k]
                                ELSE IF k <= Len(s) + Len(ten) THEN ten[k - Len(s)]
                                ELSE t[k - Len(s) - Len(ten)]
      BY <3>1, <3>2, JoinedAt, ZenonT(40)
    <3>4. Len(s) = 1 /\ Len(ten) = 10 /\ Len(s) + Len(ten) = 11
      BY <2>5, <2>6, <2>7
    <3> HIDE DEF shift
    <3> QED BY <2>8, <3>3, <3>4
  <2> HIDE DEF shift
  <2>10. k - 1 - 10 = k - 11 /\ (k > 1 /\ k <= 11 => k - 1 \in 1 .. 10)
    OBVIOUS
  <2> QED BY <2>5, <2>6, <2>7, <2>9, <2>10
<1> HIDE DEF shift
<1>3. ASSUME NEW v \in 0 .. 63
      PROVE  (v + shift[index(v) + 1]) % 256 = Alphabet[v]
  <2>1. CASE v < 26
    <3>1. SubSaturating(v, 51) = 0 /\ Short(13)
      BY <2>1 DEF SubSaturating, Short
    <3>2. index(v) + 1 = 14
      BY <2>1, <3>1, Ors
    <3>3. shift[14] = 65
      BY <1>2
    <3> QED BY <2>1, <3>2, <3>3, AlphabetIs
  <2>2. CASE v >= 26
    <3> DEFINE k == SubSaturating(v, 51)
    <3>1. k = IF v < 52 THEN 0 ELSE v - 51
      BY DEF SubSaturating
    <3>2. index(v) + 1 = k + 1
      <4>1. Short(k)
        BY <3>1 DEF Short
      <4>2. (k | 0) = k
        BY <4>1, Ors
      <4> QED BY <2>2, <4>2
    <3> HIDE DEF k, index
    <3>3. shift[k + 1] = IF v < 52 THEN 71 ELSE IF v < 62 THEN 252
                         ELSE IF v = 62 THEN 237 ELSE 240
      <4>1. k + 1 \in 1 .. 14
        BY <3>1
      <4> QED BY <1>2, <3>1, <4>1
    <3> QED BY <2>2, <3>2, <3>3, AlphabetIs
  <2> QED BY <2>1, <2>2
<1> HIDE DEF index
<1>4. \A i \in DOMAIN x : (x[i] + shift[index(x[i]) + 1]) % 256 = Alphabet[x[i]]
  BY <1>3 DEF Sextets
<1> QED BY <1>1, <1>4, Zenon DEF Lettered

\* The chain of selections of NEON is the alphabet.
LEMMA NeonAlphabet ==
  ASSUME NEW v \in 0 .. 63
  PROVE  NeonEncodeValue(v) = Alphabet[v]
  BY AlphabetIs DEF NeonEncodeValue

-----------------------------------------------------------------------------
(* Three bytes become four values of six bits                                *)

SextetOf(a, b, c, r) ==
  CASE r = 0 -> a \div 4
    [] r = 1 -> 16 * (a % 4) + (b \div 16)
    [] r = 2 -> 4 * (b % 16) + (c \div 64)
    [] r = 3 -> c % 64

\* The parts of three bytes, and the values they make.
LEMMA SextetsAre ==
  ASSUME NEW a \in Byte, NEW b \in Byte, NEW c \in Byte
  PROVE  /\ a \div 4 \in 0 .. 63 /\ a % 4 \in 0 .. 3 /\ a = 4 * (a \div 4) + (a % 4)
         /\ b \div 16 \in 0 .. 15 /\ b % 16 \in 0 .. 15 /\ b = 16 * (b \div 16) + (b % 16)
         /\ c \div 64 \in 0 .. 3 /\ c % 64 \in 0 .. 63 /\ c = 64 * (c \div 64) + (c % 64)
         /\ SextetOf(a, b, c, 0) = a \div 4
         /\ SextetOf(a, b, c, 1) = 16 * (a % 4) + (b \div 16)
         /\ SextetOf(a, b, c, 2) = 4 * (b % 16) + (c \div 64)
         /\ SextetOf(a, b, c, 3) = c % 64
         /\ \A r \in 0 .. 3 : SextetOf(a, b, c, r) \in 0 .. 63
<1>1. a \div 4 \in 0 .. 63 /\ a % 4 \in 0 .. 3 /\ a = 4 * (a \div 4) + (a % 4)
  BY DEF Byte
<1>2. b \div 16 \in 0 .. 15 /\ b % 16 \in 0 .. 15 /\ b = 16 * (b \div 16) + (b % 16)
  BY DEF Byte
<1>3. c \div 64 \in 0 .. 3 /\ c % 64 \in 0 .. 63 /\ c = 64 * (c \div 64) + (c % 64)
  BY DEF Byte
<1>4. /\ SextetOf(a, b, c, 0) = a \div 4
      /\ SextetOf(a, b, c, 1) = 16 * (a % 4) + (b \div 16)
      /\ SextetOf(a, b, c, 2) = 4 * (b % 16) + (c \div 64)
      /\ SextetOf(a, b, c, 3) = c % 64
  BY DEF SextetOf
<1>5. ASSUME NEW r \in 0 .. 3 PROVE SextetOf(a, b, c, r) \in 0 .. 63
  <2>1. r = 0 \/ r = 1 \/ r = 2 \/ r = 3
    OBVIOUS
  <2> DEFINE a0 == a % 4
             b0 == b % 16
             b1 == b \div 16
             c1 == c \div 64
  <2>2. a0 \in 0 .. 3 /\ b0 \in 0 .. 15 /\ b1 \in 0 .. 15 /\ c1 \in 0 .. 3
    BY <1>1, <1>2, <1>3
  <2> HIDE DEF a0, b0, b1, c1
  <2>3. 16 * a0 + b1 \in 0 .. 63 /\ 4 * b0 + c1 \in 0 .. 63
    BY <2>2
  <2> QED BY <1>1, <1>3, <1>4, <2>1, <2>3 DEF a0, b0, b1, c1
<1> QED BY <1>1, <1>2, <1>3, <1>4, <1>5

\* The halfwords of a triple, of which the first byte is the high one.
LEMMA HalvesAre ==
  ASSUME NEW a \in Byte, NEW b \in Byte, NEW c \in Byte
  PROVE  /\ Short(b + 256 * a) /\ Short(c + 256 * b)
         /\ (b + 256 * a) \div 1024 = SextetOf(a, b, c, 0)
         /\ ((b + 256 * a) \div 16) % 64 = SextetOf(a, b, c, 1)
         /\ ((c + 256 * b) \div 64) % 64 = SextetOf(a, b, c, 2)
         /\ (c + 256 * b) % 64 = SextetOf(a, b, c, 3)
<1> DEFINE a0 == a % 4
           a1 == a \div 4
           b0 == b % 16
           b1 == b \div 16
           c0 == c % 64
           c1 == c \div 64
<1>1. /\ a1 \in 0 .. 63 /\ a0 \in 0 .. 3 /\ a = 4 * a1 + a0
      /\ b1 \in 0 .. 15 /\ b0 \in 0 .. 15 /\ b = 16 * b1 + b0
      /\ c1 \in 0 .. 3 /\ c0 \in 0 .. 63 /\ c = 64 * c1 + c0
  BY SextetsAre
<1>2. /\ SextetOf(a, b, c, 0) = a1 /\ SextetOf(a, b, c, 1) = 16 * a0 + b1
      /\ SextetOf(a, b, c, 2) = 4 * b0 + c1 /\ SextetOf(a, b, c, 3) = c0
  BY SextetsAre
<1> HIDE DEF a0, a1, b0, b1, c0, c1
<1>3. Short(b + 256 * a) /\ Short(c + 256 * b)
  BY DEF Short, Byte
<1>4. (b + 256 * a) \div 1024 = a1
  <2>1. b + 256 * a = 1024 * a1 + (256 * a0 + b) /\ 256 * a0 + b \in 0 .. 1023
    BY <1>1 DEF Byte
  <2> QED BY <1>1, <2>1
<1>5. ((b + 256 * a) \div 16) % 64 = 16 * a0 + b1
  <2>1. (b + 256 * a) \div 16 = b1 + 16 * a
    <3>1. b + 256 * a = 16 * (b1 + 16 * a) + b0
      BY <1>1 DEF Byte
    <3> QED BY <1>1, <3>1 DEF Byte
  <2>2. b1 + 16 * a = 64 * a1 + (16 * a0 + b1) /\ 16 * a0 + b1 \in 0 .. 63
    BY <1>1
  <2> QED BY <1>1, <2>1, <2>2
<1>6. ((c + 256 * b) \div 64) % 64 = 4 * b0 + c1
  <2>1. (c + 256 * b) \div 64 = c1 + 4 * b
    <3>1. c + 256 * b = 64 * (c1 + 4 * b) + c0
      BY <1>1 DEF Byte
    <3> QED BY <1>1, <3>1 DEF Byte
  <2>2. c1 + 4 * b = 64 * b1 + (4 * b0 + c1) /\ 4 * b0 + c1 \in 0 .. 63
    BY <1>1
  <2> QED BY <1>1, <2>1, <2>2
<1>7. (c + 256 * b) % 64 = c0
  <2>1. c + 256 * b = 64 * (c1 + 4 * b) + c0
    BY <1>1 DEF Byte
  <2> QED BY <1>1, <2>1 DEF Byte
<1> QED BY <1>2, <1>3, <1>4, <1>5, <1>6, <1>7

\* The multiplications of x86 and the shifts of wasm32 put two values in a lane.
LEMMA LanesAre ==
  ASSUME NEW a \in Byte, NEW b \in Byte, NEW c \in Byte,
         NEW h, NEW g, h = b + 256 * a, g = c + 256 * b
  PROVE  /\ (((h & 64512) * 64) \div 65536 | (((h & 1008) * 16) % 65536))
              = SextetOf(a, b, c, 0) + 256 * SextetOf(a, b, c, 1)
         /\ (((g & 4032) * 1024) \div 65536 | (((g & 63) * 256) % 65536))
              = SextetOf(a, b, c, 2) + 256 * SextetOf(a, b, c, 3)
         /\ (ShiftRight(h & 64512, 10) | ShiftLeft(h & 1008, 4))
              = SextetOf(a, b, c, 0) + 256 * SextetOf(a, b, c, 1)
         /\ (ShiftRight(g & 4032, 6) | ShiftLeft(g & 63, 8))
              = SextetOf(a, b, c, 2) + 256 * SextetOf(a, b, c, 3)
<1> DEFINE p == SextetOf(a, b, c, 0)
           q == SextetOf(a, b, c, 1)
           r == SextetOf(a, b, c, 2)
           s == SextetOf(a, b, c, 3)
<1>1. p \in 0 .. 63 /\ q \in 0 .. 63 /\ r \in 0 .. 63 /\ s \in 0 .. 63
  BY SextetsAre
<1>2. (h & 64512) = 1024 * p /\ (h & 1008) = 16 * q
  <2>1. Short(h) /\ h \div 1024 = p /\ (h \div 16) % 64 = q
    BY HalvesAre
  <2>2. (h & 64512) = 1024 * (h \div 1024) /\ (h & 1008) = 16 * ((h \div 16) % 64)
    BY <2>1, Masks
  <2> QED BY <2>1, <2>2
<1>3. (g & 4032) = 64 * r /\ (g & 63) = s
  <2>1. Short(g) /\ (g \div 64) % 64 = r /\ g % 64 = s
    BY HalvesAre
  <2>2. (g & 4032) = 64 * ((g \div 64) % 64) /\ (g & 63) = g % 64
    BY <2>1, Masks
  <2> QED BY <2>1, <2>2
<1> HIDE DEF p, q, r, s
<1>4. (p | 256 * q) = p + 256 * q /\ (r | 256 * s) = r + 256 * s
  <2>1. p \in Byte /\ q \in Byte /\ r \in Byte /\ s \in Byte
    BY <1>1 DEF Byte
  <2> QED BY <2>1, Ors
<1>5. (1024 * p * 64) \div 65536 = p /\ (16 * q * 16) % 65536 = 256 * q
  <2>1. 1024 * p * 64 = 65536 * p /\ 16 * q * 16 = 256 * q
    BY <1>1
  <2> QED BY <1>1, <2>1
<1>6. (64 * r * 1024) \div 65536 = r /\ (s * 256) % 65536 = 256 * s
  <2>1. 64 * r * 1024 = 65536 * r /\ s * 256 = 256 * s
    BY <1>1
  <2> QED BY <1>1, <2>1
<1>7. ShiftRight(1024 * p, 10) = p /\ ShiftLeft(16 * q, 4) = 256 * q
  <2>1. (1024 * p) \div 1024 = p /\ (16 * q * 16) % 65536 = 256 * q
    BY <1>1, <1>5
  <2> QED BY <2>1 DEF ShiftRight, ShiftLeft, Word16
<1>8. ShiftRight(64 * r, 6) = r /\ ShiftLeft(s, 8) = 256 * s
  <2>1. (64 * r) \div 64 = r /\ (s * 256) % 65536 = 256 * s
    BY <1>1, <1>6
  <2> QED BY <2>1 DEF ShiftRight, ShiftLeft, Word16
<1>9. (((h & 64512) * 64) \div 65536 | (((h & 1008) * 16) % 65536)) = p + 256 * q
  BY <1>2, <1>4, <1>5
<1>10. (((g & 4032) * 1024) \div 65536 | (((g & 63) * 256) % 65536)) = r + 256 * s
  BY <1>3, <1>4, <1>6
<1>11. (ShiftRight(h & 64512, 10) | ShiftLeft(h & 1008, 4)) = p + 256 * q
  BY <1>2, <1>4, <1>7
<1>12. (ShiftRight(g & 4032, 6) | ShiftLeft(g & 63, 8)) = r + 256 * s
  BY <1>3, <1>4, <1>8
<1> QED BY <1>9, <1>10, <1>11, <1>12 DEF p, q, r, s

\* A lane is two bytes.
LEMMA LaneBytes ==
  ASSUME NEW h, NEW i \in 0 .. 7, h[i] \in Nat
  PROVE  /\ FromHalves(h)[2 * i + 1] = h[i] % 256
         /\ FromHalves(h)[2 * i + 2] = (h[i] \div 256) % 256
<1>1. 2 * i + 1 \in 1 .. 16 /\ 2 * i + 2 \in 1 .. 16
  OBVIOUS
<1>2. (2 * i + 1 - 1) \div 2 = i /\ (2 * i + 1 - 1) % 2 = 0
  OBVIOUS
<1>3. (2 * i + 2 - 1) \div 2 = i /\ (2 * i + 2 - 1) % 2 = 1
  OBVIOUS
<1>4. FromHalves(h)[2 * i + 1] = ShiftRight(h[i], 8 * 0) % 256
  BY <1>1, <1>2 DEF FromHalves
<1>5. FromHalves(h)[2 * i + 2] = ShiftRight(h[i], 8 * 1) % 256
  BY <1>1, <1>3 DEF FromHalves
<1>6. ShiftRight(h[i], 8 * 0) = h[i] /\ ShiftRight(h[i], 8 * 1) = h[i] \div 256
  BY DEF ShiftRight
<1> QED BY <1>4, <1>5, <1>6

-----------------------------------------------------------------------------
(* A block of every backend is the text of its triples                       *)

\* The values of n triples of x, the first of which begins after off bytes.
Fields(y, x, off, n) ==
  \A j \in 0 .. n - 1, r \in 0 .. 3 :
    y[4 * j + r + 1] =
      SextetOf(x[off + 3 * j + 1], x[off + 3 * j + 2], x[off + 3 * j + 3], r)

\* A shuffle that takes each triple apart, the middle byte twice.
Apart(sel, off) ==
  /\ DOMAIN sel = 1 .. 16
  /\ \A j \in 0 .. 3 : /\ sel[4 * j + 1] = off + 3 * j + 1 /\ sel[4 * j + 2] = off + 3 * j
                       /\ sel[4 * j + 3] = off + 3 * j + 2 /\ sel[4 * j + 4] = off + 3 * j + 1

\* The shuffle leaves the three bytes of a triple in the two halves of a lane.
LEMMA ShuffledHalves ==
  ASSUME NEW x, NEW sel, NEW off \in Nat, Apart(sel, off), NEW j \in 0 .. 3
  PROVE  /\ Half(Shuffle(x, sel), 2 * j) = x[off + 3 * j + 2] + 256 * x[off + 3 * j + 1]
         /\ Half(Shuffle(x, sel), 2 * j + 1) = x[off + 3 * j + 3] + 256 * x[off + 3 * j + 2]
<1> DEFINE y == Shuffle(x, sel)
<1>1. ASSUME NEW i \in 1 .. 16, sel[i] \in Nat PROVE y[i] = x[sel[i] + 1]
  <2>1. y[i] = IF sel[i] < 0 THEN 0 ELSE x[sel[i] + 1]
    BY DEF Shuffle, Apart
  <2> QED BY <1>1, <2>1
<1> HIDE DEF y
<1>2. /\ sel[4 * j + 1] = off + 3 * j + 1 /\ sel[4 * j + 2] = off + 3 * j
      /\ sel[4 * j + 3] = off + 3 * j + 2 /\ sel[4 * j + 4] = off + 3 * j + 1
  BY DEF Apart
<1>3. /\ 4 * j + 1 \in 1 .. 16 /\ 4 * j + 2 \in 1 .. 16
      /\ 4 * j + 3 \in 1 .. 16 /\ 4 * j + 4 \in 1 .. 16
  OBVIOUS
<1>4. /\ off + 3 * j \in Nat /\ off + 3 * j + 1 \in Nat /\ off + 3 * j + 2 \in Nat
      /\ off + 3 * j + 1 + 1 = off + 3 * j + 2 /\ off + 3 * j + 2 + 1 = off + 3 * j + 3
  OBVIOUS
<1>5. /\ y[4 * j + 1] = x[off + 3 * j + 2] /\ y[4 * j + 2] = x[off + 3 * j + 1]
      /\ y[4 * j + 3] = x[off + 3 * j + 3] /\ y[4 * j + 4] = x[off + 3 * j + 2]
  BY <1>1, <1>2, <1>3, <1>4
<1>6. Half(y, 2 * j) = y[4 * j + 1] + 256 * y[4 * j + 2]
  <2>1. 2 * (2 * j) + 1 = 4 * j + 1 /\ 2 * (2 * j) + 2 = 4 * j + 2
    OBVIOUS
  <2> QED BY <2>1 DEF Half
<1>7. Half(y, 2 * j + 1) = y[4 * j + 3] + 256 * y[4 * j + 4]
  <2>1. 2 * (2 * j + 1) + 1 = 4 * j + 3 /\ 2 * (2 * j + 1) + 2 = 4 * j + 4
    OBVIOUS
  <2> QED BY <2>1 DEF Half
<1> QED BY <1>5, <1>6, <1>7 DEF y

\* Lanes that hold the values of triples are registers of these values.
LEMMA LanesGiveFields ==
  ASSUME NEW x, NEW off \in Nat, \A i \in 1 .. 12 : x[off + i] \in Byte, NEW h,
         \A j \in 0 .. 3 :
           LET a == x[off + 3 * j + 1]  b == x[off + 3 * j + 2]  c == x[off + 3 * j + 3]
           IN /\ h[2 * j] = SextetOf(a, b, c, 0) + 256 * SextetOf(a, b, c, 1)
              /\ h[2 * j + 1] = SextetOf(a, b, c, 2) + 256 * SextetOf(a, b, c, 3)
  PROVE  /\ Fields(FromHalves(h), x, off, 4)
         /\ DOMAIN FromHalves(h) = 1 .. 16 /\ Sextets(FromHalves(h))
<1> DEFINE y == FromHalves(h)
           v(j, r) == SextetOf(x[off + 3 * j + 1], x[off + 3 * j + 2], x[off + 3 * j + 3], r)
<1>1. ASSUME NEW j \in 0 .. 3
      PROVE  /\ y[4 * j + 1] = v(j, 0) /\ y[4 * j + 2] = v(j, 1)
             /\ y[4 * j + 3] = v(j, 2) /\ y[4 * j + 4] = v(j, 3)
             /\ \A r \in 0 .. 3 : v(j, r) \in 0 .. 63
  <2>1. /\ x[off + 3 * j + 1] \in Byte /\ x[off + 3 * j + 2] \in Byte
        /\ x[off + 3 * j + 3] \in Byte
    <3>1. /\ off + 3 * j + 1 = off + (3 * j + 1) /\ 3 * j + 1 \in 1 .. 12
          /\ off + 3 * j + 2 = off + (3 * j + 2) /\ 3 * j + 2 \in 1 .. 12
          /\ off + 3 * j + 3 = off + (3 * j + 3) /\ 3 * j + 3 \in 1 .. 12
      OBVIOUS
    <3> QED BY <3>1
  <2>2. \A r \in 0 .. 3 : v(j, r) \in 0 .. 63
    BY <2>1, SextetsAre, ZenonT(40)
  <2>3. h[2 * j] = v(j, 0) + 256 * v(j, 1) /\ h[2 * j + 1] = v(j, 2) + 256 * v(j, 3)
    OBVIOUS
  <2> HIDE DEF v, y
  <2>4. /\ v(j, 0) \in 0 .. 63 /\ v(j, 1) \in 0 .. 63 /\ v(j, 2) \in 0 .. 63
        /\ v(j, 3) \in 0 .. 63
    BY <2>2
  <2>5. y[2 * (2 * j) + 1] = v(j, 0) /\ y[2 * (2 * j) + 2] = v(j, 1)
    <3> DEFINE i == 2 * j
               p == v(j, 0)
               q == v(j, 1)
    <3>1. i \in 0 .. 7 /\ p \in 0 .. 63 /\ q \in 0 .. 63 /\ h[i] = p + 256 * q
      BY <2>3, <2>4
    <3> HIDE DEF i, p, q
    <3>2. h[i] \in Nat /\ h[i] % 256 = p /\ (h[i] \div 256) % 256 = q
      BY <3>1
    <3>3. FromHalves(h)[2 * i + 1] = p /\ FromHalves(h)[2 * i + 2] = q
      BY <3>1, <3>2, LaneBytes
    <3> QED BY <3>3 DEF y, i, p, q
  <2>6. y[2 * (2 * j + 1) + 1] = v(j, 2) /\ y[2 * (2 * j + 1) + 2] = v(j, 3)
    <3> DEFINE i == 2 * j + 1
               p == v(j, 2)
               q == v(j, 3)
    <3>1. i \in 0 .. 7 /\ p \in 0 .. 63 /\ q \in 0 .. 63 /\ h[i] = p + 256 * q
      BY <2>3, <2>4
    <3> HIDE DEF i, p, q
    <3>2. h[i] \in Nat /\ h[i] % 256 = p /\ (h[i] \div 256) % 256 = q
      BY <3>1
    <3>3. FromHalves(h)[2 * i + 1] = p /\ FromHalves(h)[2 * i + 2] = q
      BY <3>1, <3>2, LaneBytes
    <3> QED BY <3>3 DEF y, i, p, q
  <2>7. /\ 2 * (2 * j) + 1 = 4 * j + 1 /\ 2 * (2 * j) + 2 = 4 * j + 2
        /\ 2 * (2 * j + 1) + 1 = 4 * j + 3 /\ 2 * (2 * j + 1) + 2 = 4 * j + 4
    OBVIOUS
  <2> QED BY <2>2, <2>5, <2>6, <2>7
<1>2. DOMAIN y = 1 .. 16
  BY DEF FromHalves
<1> HIDE DEF y, v
<1>3. ASSUME NEW j \in 0 .. 3, NEW r \in 0 .. 3 PROVE y[4 * j + r + 1] = v(j, r)
  <2>1. r = 0 \/ r = 1 \/ r = 2 \/ r = 3
    OBVIOUS
  <2>2. 4 * j + 0 + 1 = 4 * j + 1 /\ 4 * j + 1 + 1 = 4 * j + 2
        /\ 4 * j + 2 + 1 = 4 * j + 3 /\ 4 * j + 3 + 1 = 4 * j + 4
    OBVIOUS
  <2> QED BY <1>1, <2>1, <2>2
<1>4. Fields(y, x, off, 4)
  BY <1>3 DEF Fields, v
<1>5. Sextets(y)
  <2> SUFFICES ASSUME NEW i \in 1 .. 16 PROVE y[i] \in 0 .. 63
    BY <1>2 DEF Sextets
  <2> DEFINE j == (i - 1) \div 4
             r == (i - 1) % 4
  <2>1. j \in 0 .. 3 /\ r \in 0 .. 3 /\ i = 4 * j + r + 1
    OBVIOUS
  <2> HIDE DEF j, r
  <2>2. y[i] = v(j, r) /\ v(j, r) \in 0 .. 63
    BY <1>1, <1>3, <2>1
  <2> QED BY <2>2
<1> QED BY <1>2, <1>4, <1>5 DEF y

\* encode_reshuffle of x86 and split_bits of wasm32 take triples apart alike.
LEMMA ReshuffleFields ==
  ASSUME NEW x, NEW sel, NEW off \in Nat, Apart(sel, off),
         \A i \in 1 .. 12 : x[off + i] \in Byte
  PROVE  LET y == EncodeReshuffle(x, sel)
         IN Fields(y, x, off, 4) /\ DOMAIN y = 1 .. 16 /\ Sextets(y)
<1> DEFINE y == Shuffle(x, sel)
           a(i) == ((Half(y, i) & Alternate(i, \hFC00, \h0FC0))
                      * Alternate(i, \h0040, \h0400)) \div 2^16
           b(i) == ((Half(y, i) & Alternate(i, \h03F0, \h003F))
                      * Alternate(i, \h0010, \h0100)) % 2^16
           h == [i \in 0 .. 7 |-> a(i) | b(i)]
<1>1. EncodeReshuffle(x, sel) = FromHalves(h)
  BY DEF EncodeReshuffle
<1>2. ASSUME NEW j \in 0 .. 3
      PROVE  LET p == x[off + 3 * j + 1]  q == x[off + 3 * j + 2]  r == x[off + 3 * j + 3]
             IN /\ h[2 * j] = SextetOf(p, q, r, 0) + 256 * SextetOf(p, q, r, 1)
                /\ h[2 * j + 1] = SextetOf(p, q, r, 2) + 256 * SextetOf(p, q, r, 3)
  <2> DEFINE p == x[off + 3 * j + 1]
             q == x[off + 3 * j + 2]
             r == x[off + 3 * j + 3]
             e == Half(y, 2 * j)
             f == Half(y, 2 * j + 1)
  <2>1. p \in Byte /\ q \in Byte /\ r \in Byte
    <3>1. /\ off + 3 * j + 1 = off + (3 * j + 1) /\ 3 * j + 1 \in 1 .. 12
          /\ off + 3 * j + 2 = off + (3 * j + 2) /\ 3 * j + 2 \in 1 .. 12
          /\ off + 3 * j + 3 = off + (3 * j + 3) /\ 3 * j + 3 \in 1 .. 12
      OBVIOUS
    <3> QED BY <3>1
  <2>2. e = q + 256 * p /\ f = r + 256 * q
    BY ShuffledHalves
  <2>3. /\ 2 * j \in 0 .. 7 /\ (2 * j) % 2 = 0
        /\ 2 * j + 1 \in 0 .. 7 /\ (2 * j + 1) % 2 = 1
    OBVIOUS
  <2> HIDE DEF y
  <2>4. h[2 * j] = (((e & 64512) * 64) \div 65536 | (((e & 1008) * 16) % 65536))
    BY <2>3 DEF Alternate
  <2>5. h[2 * j + 1] = (((f & 4032) * 1024) \div 65536 | (((f & 63) * 256) % 65536))
    BY <2>3 DEF Alternate
  <2> HIDE DEF p, q, r, e, f, h
  <2>6. /\ h[2 * j] = SextetOf(p, q, r, 0) + 256 * SextetOf(p, q, r, 1)
        /\ h[2 * j + 1] = SextetOf(p, q, r, 2) + 256 * SextetOf(p, q, r, 3)
    BY <2>1, <2>2, <2>4, <2>5, LanesAre
  <2> QED BY <2>6 DEF p, q, r
<1> HIDE DEF h
<1> QED BY <1>1, <1>2, LanesGiveFields

\* Twos takes triples apart, from the first byte on, and four bytes further the same.
LEMMA TwosApart ==
  /\ Apart(Twos, 0)
  /\ Apart([i \in 1 .. 16 |-> Twos[i] + 4], 4)
<1>1. DOMAIN Twos = 1 .. 16
  BY DEF Twos
<1>2. ASSUME NEW j \in 0 .. 3
      PROVE  /\ Twos[4 * j + 1] = 3 * j + 1 /\ Twos[4 * j + 2] = 3 * j
             /\ Twos[4 * j + 3] = 3 * j + 2 /\ Twos[4 * j + 4] = 3 * j + 1
  <2>1. CASE j = 0
    BY <2>1 DEF Twos
  <2>2. CASE j = 1
    BY <2>2 DEF Twos
  <2>3. CASE j = 2
    BY <2>3 DEF Twos
  <2>4. CASE j = 3
    BY <2>4 DEF Twos
  <2> QED BY <2>1, <2>2, <2>3, <2>4
<1>3. Apart(Twos, 0)
  BY <1>1, <1>2 DEF Apart
<1>4. Apart([i \in 1 .. 16 |-> Twos[i] + 4], 4)
  <2> DEFINE s == [i \in 1 .. 16 |-> Twos[i] + 4]
  <2>1. DOMAIN s = 1 .. 16 /\ \A i \in 1 .. 16 : s[i] = Twos[i] + 4
    OBVIOUS
  <2> HIDE DEF s
  <2>2. ASSUME NEW j \in 0 .. 3
        PROVE  /\ s[4 * j + 1] = 4 + 3 * j + 1 /\ s[4 * j + 2] = 4 + 3 * j
               /\ s[4 * j + 3] = 4 + 3 * j + 2 /\ s[4 * j + 4] = 4 + 3 * j + 1
    <3>1. /\ 4 * j + 1 \in 1 .. 16 /\ 4 * j + 2 \in 1 .. 16
          /\ 4 * j + 3 \in 1 .. 16 /\ 4 * j + 4 \in 1 .. 16
      OBVIOUS
    <3> QED BY <1>2, <2>1, <3>1
  <2>3. Apart(s, 4)
    BY <2>1, <2>2 DEF Apart
  <2> QED BY <2>3 DEF s
<1> QED BY <1>3, <1>4

\* wasm32 gets the same values with shifts.
LEMMA SplitFields ==
  ASSUME NEW x, \A i \in 1 .. 12 : x[i] \in Byte
  PROVE  LET y == SplitBits(x)
         IN Fields(y, x, 0, 4) /\ DOMAIN y = 1 .. 16 /\ Sextets(y)
<1> DEFINE y == Shuffle(x, Twos)
           h == [i \in 0 .. 7 |->
                   Alternate(i, ShiftRight(Half(y, i) & \hFC00, 10)
                                  | ShiftLeft(Half(y, i) & \h03F0, 4),
                                ShiftRight(Half(y, i) & \h0FC0, 6)
                                  | ShiftLeft(Half(y, i) & \h003F, 8))]
<1>1. SplitBits(x) = FromHalves(h)
  BY DEF SplitBits
<1>2. Apart(Twos, 0)
  BY TwosApart
<1>3. \A i \in 1 .. 12 : x[0 + i] \in Byte
  OBVIOUS
<1>4. ASSUME NEW j \in 0 .. 3
      PROVE  LET p == x[0 + 3 * j + 1]  q == x[0 + 3 * j + 2]  r == x[0 + 3 * j + 3]
             IN /\ h[2 * j] = SextetOf(p, q, r, 0) + 256 * SextetOf(p, q, r, 1)
                /\ h[2 * j + 1] = SextetOf(p, q, r, 2) + 256 * SextetOf(p, q, r, 3)
  <2> DEFINE p == x[0 + 3 * j + 1]
             q == x[0 + 3 * j + 2]
             r == x[0 + 3 * j + 3]
             e == Half(y, 2 * j)
             f == Half(y, 2 * j + 1)
  <2>1. p \in Byte /\ q \in Byte /\ r \in Byte
    <3>1. /\ 0 + 3 * j + 1 = 3 * j + 1 /\ 3 * j + 1 \in 1 .. 12
          /\ 0 + 3 * j + 2 = 3 * j + 2 /\ 3 * j + 2 \in 1 .. 12
          /\ 0 + 3 * j + 3 = 3 * j + 3 /\ 3 * j + 3 \in 1 .. 12
      OBVIOUS
    <3> QED BY <3>1
  <2>2. e = q + 256 * p /\ f = r + 256 * q
    BY <1>2, ShuffledHalves
  <2>3. /\ 2 * j \in 0 .. 7 /\ (2 * j) % 2 = 0
        /\ 2 * j + 1 \in 0 .. 7 /\ (2 * j + 1) % 2 = 1
    OBVIOUS
  <2> HIDE DEF y
  <2>4. h[2 * j] = (ShiftRight(e & 64512, 10) | ShiftLeft(e & 1008, 4))
    BY <2>3 DEF Alternate
  <2>5. h[2 * j + 1] = (ShiftRight(f & 4032, 6) | ShiftLeft(f & 63, 8))
    BY <2>3 DEF Alternate
  <2> HIDE DEF p, q, r, e, f, h
  <2>6. /\ h[2 * j] = SextetOf(p, q, r, 0) + 256 * SextetOf(p, q, r, 1)
        /\ h[2 * j + 1] = SextetOf(p, q, r, 2) + 256 * SextetOf(p, q, r, 3)
    BY <2>1, <2>2, <2>4, <2>5, LanesAre
  <2> QED BY <2>6 DEF p, q, r
<1> HIDE DEF h
<1> QED BY <1>1, <1>3, <1>4, LanesGiveFields

\* The text of the first n triples of x.
BlockText(y, x, n) ==
  \A j \in 0 .. n - 1, r \in 0 .. 3 :
    y[4 * j + r + 1] = Alphabet[SextetOf(x[3 * j + 1], x[3 * j + 2], x[3 * j + 3], r)]

\* Letters in place of values.
LEMMA LetteredFields ==
  ASSUME NEW y, NEW x, NEW off, Fields(y, x, off, 4), DOMAIN y = 1 .. 16,
         NEW j \in 0 .. 3, NEW r \in 0 .. 3
  PROVE  Lettered(y)[4 * j + r + 1] =
           Alphabet[SextetOf(x[off + 3 * j + 1], x[off + 3 * j + 2], x[off + 3 * j + 3], r)]
<1>1. 4 * j + r + 1 \in 1 .. 16
  OBVIOUS
<1>2. Lettered(y)[4 * j + r + 1] = Alphabet[y[4 * j + r + 1]]
  BY <1>1 DEF Lettered
<1>3. y[4 * j + r + 1] =
        SextetOf(x[off + 3 * j + 1], x[off + 3 * j + 2], x[off + 3 * j + 3], r)
  BY DEF Fields
<1> QED BY <1>2, <1>3

\* The blocks of twelve bytes.
LEMMA NarrowText ==
  ASSUME NEW x, \A i \in 1 .. 12 : x[i] \in Byte
  PROVE  /\ BlockText(EncodeBlock12(x), x, 4)
         /\ BlockText(WasmEncodeValues(SplitBits(x)), x, 4)
<1>1. ASSUME NEW y, Fields(y, x, 0, 4), DOMAIN y = 1 .. 16
      PROVE  BlockText(Lettered(y), x, 4)
  <2> SUFFICES ASSUME NEW j \in 0 .. 3, NEW r \in 0 .. 3
               PROVE  Lettered(y)[4 * j + r + 1] =
                        Alphabet[SextetOf(x[3 * j + 1], x[3 * j + 2], x[3 * j + 3], r)]
    BY DEF BlockText
  <2>1. 0 + 3 * j = 3 * j
    OBVIOUS
  <2>2. Lettered(y)[4 * j + r + 1] =
          Alphabet[SextetOf(x[0 + 3 * j + 1], x[0 + 3 * j + 2], x[0 + 3 * j + 3], r)]
    BY <1>1, LetteredFields
  <2> QED BY <2>1, <2>2
<1>2. BlockText(EncodeBlock12(x), x, 4)
  <2> DEFINE y == EncodeReshuffle(x, Twos)
  <2>1. Fields(y, x, 0, 4) /\ DOMAIN y = 1 .. 16 /\ Sextets(y)
    <3>1. \A i \in 1 .. 12 : x[0 + i] \in Byte
      OBVIOUS
    <3> QED BY <3>1, TwosApart, ReshuffleFields
  <2>2. EncodeBlock12(x) = EncodeTranslate(y)
    BY DEF EncodeBlock12
  <2> HIDE DEF y
  <2>3. EncodeTranslate(y) = Lettered(y)
    BY <2>1, X86Alphabet
  <2> QED BY <1>1, <2>1, <2>2, <2>3
<1>3. BlockText(WasmEncodeValues(SplitBits(x)), x, 4)
  <2> DEFINE y == SplitBits(x)
  <2>1. Fields(y, x, 0, 4) /\ DOMAIN y = 1 .. 16 /\ Sextets(y)
    BY SplitFields
  <2> HIDE DEF y
  <2>2. WasmEncodeValues(y) = Lettered(y)
    BY <2>1, WasmAlphabet
  <2>3. BlockText(WasmEncodeValues(y), x, 4)
    BY <1>1, <2>1, <2>2
  <2> QED BY <2>3 DEF y
<1> QED BY <1>2, <1>3

\* The members of a part of a sequence.
LEMMA CutAt ==
  ASSUME NEW s, IsSeq(s), NEW m \in Nat \ {0}, NEW n \in Nat, n <= Len(s),
         NEW i \in 1 .. n - m + 1
  PROVE  SubSeq(s, m, n)[i] = s[m + i - 1]
<1>1. PICK S : s \in Seq(S)
  BY DEF IsSeq
<1> QED BY <1>1

\* encode_block_24: the dwords are spread so that each half begins where its triples do.
LEMMA WideText ==
  ASSUME NEW x, \A i \in 1 .. 24 : x[i] \in Byte
  PROVE  BlockText(EncodeBlock24(x), x, 8)
<1> DEFINE sel == <<0, 0, 1, 2, 3, 4, 5, 6>>
           y == PermuteDwords(x, sel)
<1>1. IsSeq(y) /\ Len(y) = 32
  <2>1. y = [i \in 1 .. 32 |-> y[i]]
    BY Zenon DEF PermuteDwords
  <2> HIDE DEF y
  <2> QED BY <2>1, FunctionIsSeq
<1>2. ASSUME NEW m \in 0 .. 7, NEW k \in 1 .. 4
      PROVE  y[4 * m + k] = x[4 * sel[m + 1] + k]
  <2>1. 4 * m + k \in 1 .. 32 /\ (4 * m + k - 1) \div 4 = m /\ (4 * m + k - 1) % 4 = k - 1
    OBVIOUS
  <2>2. y[4 * m + k] = x[4 * sel[((4 * m + k - 1) \div 4) + 1] + ((4 * m + k - 1) % 4) + 1]
    BY <2>1 DEF PermuteDwords
  <2>3. sel[m + 1] \in Int
    OBVIOUS
  <2>4. 4 * sel[m + 1] + (k - 1) + 1 = 4 * sel[m + 1] + k
    BY <2>3
  <2> QED BY <2>1, <2>2, <2>4
<1>3. /\ sel[2] = 0 /\ sel[3] = 1 /\ sel[4] = 2
      /\ sel[5] = 3 /\ sel[6] = 4 /\ sel[7] = 5
  OBVIOUS
<1> HIDE DEF y, sel
<1>4. ASSUME NEW i \in 1 .. 12 PROVE Low(y)[4 + i] = x[i]
  <2> DEFINE m == ((i - 1) \div 4) + 1
             k == ((i - 1) % 4) + 1
  <2>1. m \in 1 .. 3 /\ k \in 1 .. 4 /\ 4 + i = 4 * m + k /\ i = 4 * (m - 1) + k
    OBVIOUS
  <2> HIDE DEF m, k
  <2>2. sel[m + 1] = m - 1
    <3>1. m = 1 \/ m = 2 \/ m = 3
      BY <2>1
    <3> QED BY <1>3, <3>1
  <2>3. y[4 * m + k] = x[i]
    BY <1>2, <2>1, <2>2
  <2>4. Low(y)[4 + i] = y[4 + i]
    <3>1. 4 + i \in 1 .. 16 - 1 + 1 /\ 1 + (4 + i) - 1 = 4 + i
      OBVIOUS
    <3> QED BY <1>1, <3>1, CutAt DEF Low
  <2> QED BY <2>1, <2>3, <2>4
<1>5. ASSUME NEW i \in 1 .. 12 PROVE High(y)[i] = x[12 + i]
  <2> DEFINE m == ((i - 1) \div 4) + 4
             k == ((i - 1) % 4) + 1
  <2>1. m \in 4 .. 6 /\ k \in 1 .. 4 /\ 16 + i = 4 * m + k /\ 12 + i = 4 * (m - 1) + k
    OBVIOUS
  <2> HIDE DEF m, k
  <2>2. sel[m + 1] = m - 1
    <3>1. m = 4 \/ m = 5 \/ m = 6
      BY <2>1
    <3> QED BY <1>3, <3>1
  <2>3. y[4 * m + k] = x[12 + i]
    BY <1>2, <2>1, <2>2
  <2>4. High(y)[i] = y[16 + i]
    <3>1. i \in 1 .. 32 - 17 + 1 /\ 17 + i - 1 = 16 + i
      OBVIOUS
    <3> QED BY <1>1, <3>1, CutAt DEF High
  <2> QED BY <2>1, <2>3, <2>4
<1> DEFINE u == EncodeReshuffle(Low(y), [i \in 1 .. 16 |-> Twos[i] + 4])
           v == EncodeReshuffle(High(y), Twos)
<1>6. Fields(u, Low(y), 4, 4) /\ DOMAIN u = 1 .. 16 /\ Sextets(u)
  <2>1. \A i \in 1 .. 12 : Low(y)[4 + i] \in Byte
    BY <1>4
  <2> QED BY <2>1, TwosApart, ReshuffleFields
<1>7. Fields(v, High(y), 0, 4) /\ DOMAIN v = 1 .. 16 /\ Sextets(v)
  <2>1. \A i \in 1 .. 12 : High(y)[0 + i] \in Byte
    <3> SUFFICES ASSUME NEW i \in 1 .. 12 PROVE High(y)[0 + i] \in Byte
      OBVIOUS
    <3>1. 0 + i = i /\ 12 + i \in 1 .. 24
      OBVIOUS
    <3> QED BY <1>5, <3>1
  <2> QED BY <2>1, TwosApart, ReshuffleFields
<1>8. EncodeBlock24(x) = EncodeTranslate(u) \o EncodeTranslate(v)
  BY DEF EncodeBlock24, y, sel
<1> HIDE DEF u, v
<1>9. EncodeTranslate(u) = Lettered(u) /\ EncodeTranslate(v) = Lettered(v)
  BY <1>6, <1>7, X86Alphabet
<1> DEFINE s == Lettered(u)
           t == Lettered(v)
<1>10. IsSeq(s) /\ Len(s) = 16 /\ IsSeq(t) /\ Len(t) = 16
  <2>1. s = [i \in 1 .. 16 |-> s[i]] /\ t = [i \in 1 .. 16 |-> t[i]]
    BY <1>6, <1>7 DEF Lettered
  <2> HIDE DEF s, t
  <2> QED BY <2>1, FunctionIsSeq
<1>11. ASSUME NEW j \in 0 .. 7, NEW r \in 0 .. 3
       PROVE  (s \o t)[4 * j + r + 1] =
                Alphabet[SextetOf(x[3 * j + 1], x[3 * j + 2], x[3 * j + 3], r)]
  <2>1. CASE j \in 0 .. 3
    <3>1. s[4 * j + r + 1] =
            Alphabet[SextetOf(Low(y)[4 + 3 * j + 1], Low(y)[4 + 3 * j + 2],
                              Low(y)[4 + 3 * j + 3], r)]
      BY <1>6, <2>1, LetteredFields
    <3>2. /\ Low(y)[4 + 3 * j + 1] = x[3 * j + 1] /\ Low(y)[4 + 3 * j + 2] = x[3 * j + 2]
          /\ Low(y)[4 + 3 * j + 3] = x[3 * j + 3]
      <4>1. /\ 3 * j + 1 \in 1 .. 12 /\ 4 + (3 * j + 1) = 4 + 3 * j + 1
            /\ 3 * j + 2 \in 1 .. 12 /\ 4 + (3 * j + 2) = 4 + 3 * j + 2
            /\ 3 * j + 3 \in 1 .. 12 /\ 4 + (3 * j + 3) = 4 + 3 * j + 3
        BY <2>1
      <4>2. /\ Low(y)[4 + (3 * j + 1)] = x[3 * j + 1] /\ Low(y)[4 + (3 * j + 2)] = x[3 * j + 2]
            /\ Low(y)[4 + (3 * j + 3)] = x[3 * j + 3]
        BY <1>4, <4>1
      <4> QED BY <4>1, <4>2
    <3> HIDE DEF s, t
    <3>3. (s \o t)[4 * j + r + 1] = s[4 * j + r + 1]
      <4>1. 4 * j + r + 1 \in 1 .. Len(s) + Len(t) /\ 4 * j + r + 1 <= Len(s)
        BY <1>10, <2>1
      <4> QED BY <1>10, <4>1, ConcatAt
    <3> QED BY <3>1, <3>2, <3>3
  <2>2. CASE j \in 4 .. 7
    <3> DEFINE i == j - 4
    <3>1. i \in 0 .. 3 /\ j = i + 4
      BY <2>2
    <3> HIDE DEF i
    <3>2. t[4 * i + r + 1] =
            Alphabet[SextetOf(High(y)[0 + 3 * i + 1], High(y)[0 + 3 * i + 2],
                              High(y)[0 + 3 * i + 3], r)]
      BY <1>7, <3>1, LetteredFields
    <3>3. /\ High(y)[0 + 3 * i + 1] = x[3 * j + 1] /\ High(y)[0 + 3 * i + 2] = x[3 * j + 2]
          /\ High(y)[0 + 3 * i + 3] = x[3 * j + 3]
      <4>1. /\ 3 * i + 1 \in 1 .. 12 /\ 0 + 3 * i + 1 = 3 * i + 1 /\ 12 + (3 * i + 1) = 3 * j + 1
            /\ 3 * i + 2 \in 1 .. 12 /\ 0 + 3 * i + 2 = 3 * i + 2 /\ 12 + (3 * i + 2) = 3 * j + 2
            /\ 3 * i + 3 \in 1 .. 12 /\ 0 + 3 * i + 3 = 3 * i + 3 /\ 12 + (3 * i + 3) = 3 * j + 3
        BY <3>1
      <4>2. /\ High(y)[3 * i + 1] = x[12 + (3 * i + 1)] /\ High(y)[3 * i + 2] = x[12 + (3 * i + 2)]
            /\ High(y)[3 * i + 3] = x[12 + (3 * i + 3)]
        BY <1>5, <4>1
      <4> QED BY <4>1, <4>2
    <3> HIDE DEF s, t
    <3>4. (s \o t)[4 * j + r + 1] = t[4 * i + r + 1]
      <4> DEFINE k == 4 * j + r + 1
      <4>1. k \in 1 .. Len(s) + Len(t) /\ ~(k <= Len(s)) /\ k - Len(s) = 4 * i + r + 1
        BY <1>10, <3>1
      <4> HIDE DEF k
      <4>2. (s \o t)[k] = t[k - Len(s)]
        BY <1>10, <4>1, ConcatAt
      <4> QED BY <4>1, <4>2 DEF k
    <3> QED BY <3>2, <3>3, <3>4
  <2>3. j \in 0 .. 3 \/ j \in 4 .. 7
    OBVIOUS
  <2> HIDE DEF s, t
  <2> QED BY <2>1, <2>2, <2>3, Zenon
<1> HIDE DEF s, t
<1>12. BlockText(s \o t, x, 8)
  <2>1. 0 .. 8 - 1 = 0 .. 7
    OBVIOUS
  <2> QED BY <1>11, <2>1, Zenon DEF BlockText
<1> QED BY <1>8, <1>9, <1>12 DEF s, t

\* The fields of NEON: the bits that a shift leaves above the sixth are masked.
LEMMA NeonFields ==
  ASSUME NEW a \in Byte, NEW b \in Byte, NEW c \in Byte
  PROVE  /\ ShiftRight(a, 2) = SextetOf(a, b, c, 0)
         /\ ((((a * 2^4) % 256) | ShiftRight(b, 4)) & \h3F) = SextetOf(a, b, c, 1)
         /\ ((((b * 2^2) % 256) | ShiftRight(c, 6)) & \h3F) = SextetOf(a, b, c, 2)
         /\ (c & \h3F) = SextetOf(a, b, c, 3)
<1> DEFINE a0 == a % 16
           b0 == b % 64
           b1 == b \div 16
           c1 == c \div 64
<1>1. /\ a0 \in 0 .. 15 /\ a \div 16 \in 0 .. 15 /\ a = 16 * (a \div 16) + a0
      /\ b0 \in 0 .. 63 /\ b \div 64 \in 0 .. 3 /\ b = 64 * (b \div 64) + b0
      /\ b1 \in 0 .. 15 /\ c1 \in 0 .. 3
  BY DEF Byte
<1>2. (a * 16) % 256 = 16 * a0 /\ (b * 4) % 256 = 4 * b0
  <2> DEFINE a1 == a \div 16
             b2 == b \div 64
  <2>1. a1 \in Nat /\ a = 16 * a1 + a0 /\ b2 \in Nat /\ b = 64 * b2 + b0
    BY <1>1
  <2> HIDE DEF a0, a1, b0, b2
  <2>2. a * 16 = a1 * 256 + 16 * a0 /\ 16 * a0 \in 0 .. 255
    BY <1>1, <2>1
  <2>3. b * 4 = b2 * 256 + 4 * b0 /\ 4 * b0 \in 0 .. 255
    BY <1>1, <2>1
  <2>4. (a * 16) % 256 = 16 * a0
    <3>1. a1 \in Nat
      BY <2>1
    <3> QED BY <2>2, <3>1
  <2>5. (b * 4) % 256 = 4 * b0
    <3>1. b2 \in Nat
      BY <2>1
    <3> QED BY <2>3, <3>1
  <2> QED BY <2>4, <2>5
<1>3. ShiftRight(b, 4) = b1 /\ ShiftRight(c, 6) = c1 /\ ShiftRight(a, 2) = a \div 4
  BY DEF ShiftRight
<1>4. a0 % 4 = a % 4 /\ b0 % 16 = b % 16
  <2>1. a0 % 4 = a % 4
    <3> DEFINE a1 == a \div 16
    <3>1. a1 \in Nat /\ a = 16 * a1 + a0
      BY <1>1
    <3> HIDE DEF a0, a1
    <3> QED BY <1>1, <3>1
  <2>2. b0 % 16 = b % 16
    <3> DEFINE b2 == b \div 64
    <3>1. b2 \in Nat /\ b = 64 * b2 + b0
      BY <1>1
    <3> HIDE DEF b0, b2
    <3> QED BY <1>1, <3>1
  <2> QED BY <2>1, <2>2
<1> HIDE DEF a0, b0, b1, c1
<1>5. (16 * a0 | b1) = 16 * a0 + b1 /\ (4 * b0 | c1) = 4 * b0 + c1
  <2>1. a0 \in 0 .. 15 /\ b1 \in 0 .. 15 /\ b0 \in 0 .. 63 /\ c1 \in 0 .. 3
    BY <1>1
  <2> QED BY <2>1, Ors
<1>6. Short(16 * a0 + b1) /\ Short(4 * b0 + c1) /\ Short(c)
  BY <1>1 DEF Short, Byte
<1>7. ((16 * a0 + b1) & 63) = 16 * (a % 4) + b1
  <2>1. ((16 * a0 + b1) & 63) = (16 * a0 + b1) % 64
    BY <1>6, Masks
  <2>2. (16 * a0 + b1) % 64 = 16 * (a0 % 4) + b1
    <3> DEFINE p == a0 \div 4
               q == a0 % 4
    <3>1. p \in 0 .. 3 /\ q \in 0 .. 3 /\ a0 = 4 * p + q
      <4>1. a0 \in 0 .. 15
        BY <1>1
      <4> QED BY <4>1
    <3> HIDE DEF p, q
    <3>2. 16 * a0 + b1 = 64 * p + (16 * q + b1) /\ 16 * q + b1 \in 0 .. 63
      BY <1>1, <3>1
    <3>3. (16 * a0 + b1) % 64 = 16 * q + b1
      BY <3>1, <3>2
    <3> QED BY <3>3 DEF q
  <2> QED BY <1>4, <2>1, <2>2
<1>8. ((4 * b0 + c1) & 63) = 4 * (b % 16) + c1
  <2>1. ((4 * b0 + c1) & 63) = (4 * b0 + c1) % 64
    BY <1>6, Masks
  <2>2. (4 * b0 + c1) % 64 = 4 * (b0 % 16) + c1
    <3> DEFINE p == b0 \div 16
               q == b0 % 16
    <3>1. p \in 0 .. 3 /\ q \in 0 .. 15 /\ b0 = 16 * p + q
      <4>1. b0 \in 0 .. 63
        BY <1>1
      <4> QED BY <4>1
    <3> HIDE DEF p, q
    <3>2. 4 * b0 + c1 = 64 * p + (4 * q + c1) /\ 4 * q + c1 \in 0 .. 63
      BY <1>1, <3>1
    <3>3. (4 * b0 + c1) % 64 = 4 * q + c1
      BY <3>1, <3>2
    <3> QED BY <3>3 DEF q
  <2> QED BY <1>4, <2>1, <2>2
<1>9. (c & 63) = c % 64
  BY <1>6, Masks
<1>10. /\ SextetOf(a, b, c, 0) = a \div 4 /\ SextetOf(a, b, c, 1) = 16 * (a % 4) + b1
       /\ SextetOf(a, b, c, 2) = 4 * (b % 16) + c1 /\ SextetOf(a, b, c, 3) = c % 64
  BY SextetsAre DEF b1, c1
<1>11. (((a * 2^4) % 256) | ShiftRight(b, 4)) = (16 * a0 | b1)
  <2>1. a * 2^4 = a * 16
    BY DEF Byte
  <2> QED BY <1>2, <1>3, <2>1
<1>12. (((b * 2^2) % 256) | ShiftRight(c, 6)) = (4 * b0 | c1)
  <2>1. b * 2^2 = b * 4
    BY DEF Byte
  <2> QED BY <1>2, <1>3, <2>1
<1> QED BY <1>3, <1>5, <1>7, <1>8, <1>9, <1>10, <1>11, <1>12

\* The block of NEON.
LEMMA NeonText ==
  ASSUME NEW x, Len(x) = 24, \A i \in 1 .. 24 : x[i] \in Byte
  PROVE  BlockText(NeonEncode(x), x, 8)
<1> DEFINE a == Stream(x, 3, 1)
           b == Stream(x, 3, 2)
           c == Stream(x, 3, 3)
           shl(v, n) == (v * 2^n) % 256
           field(i, k) == CASE k = 1 -> ShiftRight(a[i], 2)
                            [] k = 2 -> (shl(a[i], 4) | ShiftRight(b[i], 4)) & \h3F
                            [] k = 3 -> (shl(b[i], 2) | ShiftRight(c[i], 6)) & \h3F
                            [] k = 4 -> c[i] & \h3F
           S == [i \in 1 .. 8 |-> [k \in 1 .. 4 |-> NeonEncodeValue(field(i, k))]]
<1>1. NeonEncode(x) = Weave(4, S)
  BY DEF NeonEncode
<1>2. ASSUME NEW j \in 0 .. 7, NEW r \in 0 .. 3
      PROVE  Weave(4, S)[4 * j + r + 1] =
               Alphabet[SextetOf(x[3 * j + 1], x[3 * j + 2], x[3 * j + 3], r)]
  <2>1. a[j + 1] = x[3 * j + 1] /\ b[j + 1] = x[3 * j + 2] /\ c[j + 1] = x[3 * j + 3]
    <3>1. 24 \div 3 = 8 /\ j + 1 \in 1 .. 8 /\ 3 * (j + 1 - 1) = 3 * j
      OBVIOUS
    <3> QED BY <3>1 DEF Stream
  <2> DEFINE p == x[3 * j + 1]
             q == x[3 * j + 2]
             s == x[3 * j + 3]
             w == SextetOf(p, q, s, r)
  <2>2. p \in Byte /\ q \in Byte /\ s \in Byte
    <3>1. 3 * j + 1 \in 1 .. 24 /\ 3 * j + 2 \in 1 .. 24 /\ 3 * j + 3 \in 1 .. 24
      OBVIOUS
    <3> QED BY <3>1
  <2>3. w \in 0 .. 63
    BY <2>2, SextetsAre
  <2> HIDE DEF a, b, c, p, q, s, w
  <2>4. field(j + 1, r + 1) = w
    <3>1. /\ ShiftRight(p, 2) = SextetOf(p, q, s, 0)
          /\ ((((p * 2^4) % 256) | ShiftRight(q, 4)) & \h3F) = SextetOf(p, q, s, 1)
          /\ ((((q * 2^2) % 256) | ShiftRight(s, 6)) & \h3F) = SextetOf(p, q, s, 2)
          /\ (s & \h3F) = SextetOf(p, q, s, 3)
      BY <2>2, NeonFields
    <3>2. a[j + 1] = p /\ b[j + 1] = q /\ c[j + 1] = s
      BY <2>1 DEF p, q, s
    <3>3. CASE r = 0
      BY <3>1, <3>2, <3>3 DEF w
    <3>4. CASE r = 1
      BY <3>1, <3>2, <3>4 DEF w
    <3>5. CASE r = 2
      BY <3>1, <3>2, <3>5 DEF w
    <3>6. CASE r = 3
      BY <3>1, <3>2, <3>6 DEF w
    <3>7. r = 0 \/ r = 1 \/ r = 2 \/ r = 3
      OBVIOUS
    <3> QED BY <3>3, <3>4, <3>5, <3>6, <3>7, Zenon
  <2> HIDE DEF field
  <2>5. Weave(4, S)[4 * j + r + 1] = S[j + 1][r + 1]
    <3>1. /\ 4 * j + r + 1 \in 1 .. 8 * 4 /\ (4 * j + r + 1 - 1) \div 4 = j
          /\ (4 * j + r + 1 - 1) % 4 = r
      OBVIOUS
    <3> HIDE DEF S
    <3> QED BY <3>1 DEF Weave
  <2>6. S[j + 1][r + 1] = NeonEncodeValue(field(j + 1, r + 1))
    <3>1. j + 1 \in 1 .. 8 /\ r + 1 \in 1 .. 4
      OBVIOUS
    <3> QED BY <3>1
  <2>7. NeonEncodeValue(w) = Alphabet[w]
    BY <2>3, NeonAlphabet
  <2>8. Weave(4, S)[4 * j + r + 1] = Alphabet[w]
    BY <2>4, <2>5, <2>6, <2>7, Zenon
  <2> QED BY <2>8 DEF w, p, q, s
<1> HIDE DEF S
<1>3. 0 .. 8 - 1 = 0 .. 7
  OBVIOUS
<1>4. BlockText(Weave(4, S), x, 8)
  BY <1>2, <1>3, Zenon DEF BlockText
<1> QED BY <1>1, <1>4

-----------------------------------------------------------------------------
(* The text of RFC 4648, a triple at a time                                  *)

BitOf(a, n) == (a \div 2^n) % 2

\* The parts of a byte, from its bits.
LEMMA Halved ==
  ASSUME NEW q \in Nat, NEW h, h = q \div 2
  PROVE  h \in Nat /\ q % 2 \in 0 .. 1 /\ q = 2 * h + (q % 2)
OBVIOUS

\* ... and the parts of a byte, from its bits.
LEMMA ByteBits ==
  ASSUME NEW a \in Byte
  PROVE  /\ \A n \in 0 .. 7 : BitOf(a, n) \in 0 .. 1
         /\ a \div 4 = 32 * BitOf(a, 7) + 16 * BitOf(a, 6) + 8 * BitOf(a, 5)
                         + 4 * BitOf(a, 4) + 2 * BitOf(a, 3) + BitOf(a, 2)
         /\ a % 4 = 2 * BitOf(a, 1) + BitOf(a, 0)
         /\ a \div 16 = 8 * BitOf(a, 7) + 4 * BitOf(a, 6) + 2 * BitOf(a, 5) + BitOf(a, 4)
         /\ a % 16 = 8 * BitOf(a, 3) + 4 * BitOf(a, 2) + 2 * BitOf(a, 1) + BitOf(a, 0)
         /\ a \div 64 = 2 * BitOf(a, 7) + BitOf(a, 6)
         /\ a % 64 = 32 * BitOf(a, 5) + 16 * BitOf(a, 4) + 8 * BitOf(a, 3)
                       + 4 * BitOf(a, 2) + 2 * BitOf(a, 1) + BitOf(a, 0)
<1>1. PICK q1, q2, q3, q4, q5, q6, q7 :
        /\ q1 = a \div 2 /\ q2 = a \div 4 /\ q3 = a \div 8 /\ q4 = a \div 16
        /\ q5 = a \div 32 /\ q6 = a \div 64 /\ q7 = a \div 128
  OBVIOUS
<1>2. PICK b0, b1, b2, b3, b4, b5, b6, b7 :
        /\ b0 = a % 2 /\ b1 = q1 % 2 /\ b2 = q2 % 2 /\ b3 = q3 % 2
        /\ b4 = q4 % 2 /\ b5 = q5 % 2 /\ b6 = q6 % 2 /\ b7 = q7 % 2
  OBVIOUS
<1>3. /\ BitOf(a, 0) = b0 /\ BitOf(a, 1) = b1 /\ BitOf(a, 2) = b2 /\ BitOf(a, 3) = b3
      /\ BitOf(a, 4) = b4 /\ BitOf(a, 5) = b5 /\ BitOf(a, 6) = b6 /\ BitOf(a, 7) = b7
  BY <1>1, <1>2 DEF BitOf, Byte
<1>4. a \in Nat /\ q7 \in 0 .. 1
  BY <1>1 DEF Byte
<1>5. /\ q1 = a \div 2 /\ q2 = q1 \div 2 /\ q3 = q2 \div 2 /\ q4 = q3 \div 2
      /\ q5 = q4 \div 2 /\ q6 = q5 \div 2 /\ q7 = q6 \div 2
  BY <1>1, SMTT(60) DEF Byte
<1>6. q1 \in Nat /\ b0 \in 0 .. 1 /\ a = 2 * q1 + b0
  <2>1. a \in Nat /\ q1 = a \div 2 /\ b0 = a % 2
    BY <1>2, <1>4, <1>5, Zenon
  <2> QED BY <2>1, Halved
<1>7. q2 \in Nat /\ b1 \in 0 .. 1 /\ q1 = 2 * q2 + b1
  <2>1. q1 \in Nat /\ q2 = q1 \div 2 /\ b1 = q1 % 2
    BY <1>2, <1>5, <1>6, Zenon
  <2> QED BY <2>1, Halved
<1>8. q3 \in Nat /\ b2 \in 0 .. 1 /\ q2 = 2 * q3 + b2
  <2>1. q2 \in Nat /\ q3 = q2 \div 2 /\ b2 = q2 % 2
    BY <1>2, <1>5, <1>7, Zenon
  <2> QED BY <2>1, Halved
<1>9. q4 \in Nat /\ b3 \in 0 .. 1 /\ q3 = 2 * q4 + b3
  <2>1. q3 \in Nat /\ q4 = q3 \div 2 /\ b3 = q3 % 2
    BY <1>2, <1>5, <1>8, Zenon
  <2> QED BY <2>1, Halved
<1>10. q5 \in Nat /\ b4 \in 0 .. 1 /\ q4 = 2 * q5 + b4
  <2>1. q4 \in Nat /\ q5 = q4 \div 2 /\ b4 = q4 % 2
    BY <1>2, <1>5, <1>9, Zenon
  <2> QED BY <2>1, Halved
<1>11. q6 \in Nat /\ b5 \in 0 .. 1 /\ q5 = 2 * q6 + b5
  <2>1. q5 \in Nat /\ q6 = q5 \div 2 /\ b5 = q5 % 2
    BY <1>2, <1>5, <1>10, Zenon
  <2> QED BY <2>1, Halved
<1>12. b6 \in 0 .. 1 /\ q6 = 2 * q7 + b6
  <2>1. q6 \in Nat /\ q7 = q6 \div 2 /\ b6 = q6 % 2
    BY <1>2, <1>5, <1>11, Zenon
  <2> QED BY <2>1, Halved
<1>13. b7 = q7
  BY <1>2, <1>4
<1>14. q6 = 2 * b7 + b6
  BY <1>12, <1>13
<1>15. q4 = 8 * b7 + 4 * b6 + 2 * b5 + b4
  BY <1>4, <1>10, <1>11, <1>12, <1>13
<1>16. q2 = 32 * b7 + 16 * b6 + 8 * b5 + 4 * b4 + 2 * b3 + b2
  BY <1>4, <1>8, <1>9, <1>10, <1>11, <1>12, <1>13
<1>17. a - 4 * q2 = 2 * b1 + b0
  BY <1>6, <1>7
<1>18. a - 16 * q4 = 8 * b3 + 4 * b2 + 2 * b1 + b0
  BY <1>6, <1>7, <1>8, <1>9
<1>19. a - 64 * q6 = 32 * b5 + 16 * b4 + 8 * b3 + 4 * b2 + 2 * b1 + b0
  BY <1>6, <1>7, <1>8, <1>9, <1>10, <1>11
<1>20. a % 4 = a - 4 * q2 /\ a % 16 = a - 16 * q4 /\ a % 64 = a - 64 * q6
  BY <1>1 DEF Byte
<1>21. \A n \in 0 .. 7 : BitOf(a, n) \in 0 .. 1
  <2> SUFFICES ASSUME NEW n \in 0 .. 7 PROVE BitOf(a, n) \in 0 .. 1
    OBVIOUS
  <2>1. n = 0 \/ n = 1 \/ n = 2 \/ n = 3 \/ n = 4 \/ n = 5 \/ n = 6 \/ n = 7
    OBVIOUS
  <2>2. b7 \in 0 .. 1
    BY <1>4, <1>13
  <2> QED BY <1>3, <1>6, <1>7, <1>8, <1>9, <1>10, <1>11, <1>12, <2>1, <2>2
<1>22. a \div 4 = q2 /\ a \div 16 = q4 /\ a \div 64 = q6
  BY <1>1
<1>23. /\ a \div 4 = 32 * b7 + 16 * b6 + 8 * b5 + 4 * b4 + 2 * b3 + b2
       /\ a % 4 = 2 * b1 + b0
       /\ a \div 16 = 8 * b7 + 4 * b6 + 2 * b5 + b4
       /\ a % 16 = 8 * b3 + 4 * b2 + 2 * b1 + b0
       /\ a \div 64 = 2 * b7 + b6
       /\ a % 64 = 32 * b5 + 16 * b4 + 8 * b3 + 4 * b2 + 2 * b1 + b0
  BY <1>14, <1>15, <1>16, <1>17, <1>18, <1>19, <1>20, <1>22, Zenon
<1> QED BY <1>3, <1>21, <1>23

\* Six bits, the highest first, collected one by one.
Collects(g, b) == g = [k \in 0 .. 6 |-> IF k = 0 THEN 0 ELSE 2 * g[k - 1] + b[k - 1]]

\* ... there is one such collection, and it ends with the value.
LEMMA SixBits ==
  ASSUME NEW b, \A k \in 0 .. 5 : b[k] \in 0 .. 1
  PROVE  /\ \E g : Collects(g, b)
         /\ \A g : Collects(g, b) =>
              g[6] = 32 * b[0] + 16 * b[1] + 8 * b[2] + 4 * b[3] + 2 * b[4] + b[5]
<1>1. /\ b[0] \in 0 .. 1 /\ b[1] \in 0 .. 1 /\ b[2] \in 0 .. 1
      /\ b[3] \in 0 .. 1 /\ b[4] \in 0 .. 1 /\ b[5] \in 0 .. 1
  OBVIOUS
<1>2. \E g : Collects(g, b)
  <2> DEFINE s1 == b[0]
             s2 == 2 * s1 + b[1]
             s3 == 2 * s2 + b[2]
             s4 == 2 * s3 + b[3]
             s5 == 2 * s4 + b[4]
             s6 == 2 * s5 + b[5]
             g == [k \in 0 .. 6 |-> CASE k = 0 -> 0 [] k = 1 -> s1 [] k = 2 -> s2 [] k = 3 -> s3
                                      [] k = 4 -> s4 [] k = 5 -> s5 [] k = 6 -> s6]
  <2>1. s1 = 2 * 0 + b[0] /\ s2 = 2 * s1 + b[1] /\ s3 = 2 * s2 + b[2] /\ s4 = 2 * s3 + b[3]
        /\ s5 = 2 * s4 + b[4] /\ s6 = 2 * s5 + b[5]
    BY <1>1
  <2> HIDE DEF s1, s2, s3, s4, s5, s6
  <2>2. /\ g[0] = 0 /\ g[1] = s1 /\ g[2] = s2 /\ g[3] = s3
        /\ g[4] = s4 /\ g[5] = s5 /\ g[6] = s6
    OBVIOUS
  <2>3. g = [k \in 0 .. 6 |-> g[k]]
    OBVIOUS
  <2> HIDE DEF g
  <2>4. \A k \in 0 .. 6 : g[k] = IF k = 0 THEN 0 ELSE 2 * g[k - 1] + b[k - 1]
    <3> SUFFICES ASSUME NEW k \in 0 .. 6
                 PROVE  g[k] = IF k = 0 THEN 0 ELSE 2 * g[k - 1] + b[k - 1]
      OBVIOUS
    <3>1. k = 0 \/ k = 1 \/ k = 2 \/ k = 3 \/ k = 4 \/ k = 5 \/ k = 6
      OBVIOUS
    <3> QED BY <2>1, <2>2, <3>1
  <2>5. Collects(g, b)
    BY <2>3, <2>4 DEF Collects
  <2> QED BY <2>5
<1>3. ASSUME NEW g, Collects(g, b)
      PROVE  g[6] = 32 * b[0] + 16 * b[1] + 8 * b[2] + 4 * b[3] + 2 * b[4] + b[5]
  <2>1. \A k \in 0 .. 6 : g[k] = IF k = 0 THEN 0 ELSE 2 * g[k - 1] + b[k - 1]
    BY <1>3 DEF Collects
  <2>2. /\ g[0] = 0 /\ g[1] = 2 * g[0] + b[0] /\ g[2] = 2 * g[1] + b[1]
        /\ g[3] = 2 * g[2] + b[2] /\ g[4] = 2 * g[3] + b[3]
        /\ g[5] = 2 * g[4] + b[4] /\ g[6] = 2 * g[5] + b[5]
    BY <2>1
  <2> QED BY <1>1, <2>2
<1> QED BY <1>2, <1>3

\* A byte of the input, and the zeros past its end.
ByteAt(s, i) == IF i <= Len(s) THEN s[i] ELSE 0

\* It is a byte either way.
LEMMA BytesAt ==
  ASSUME NEW s \in Seq(Byte), NEW i \in Nat \ {0}
  PROVE  ByteAt(s, i) \in Byte
<1>1. CASE i <= Len(s)
  <2>1. i \in 1 .. Len(s)
    BY <1>1
  <2>2. s[i] \in Byte
    BY <2>1
  <2> QED BY <1>1, <2>2 DEF ByteAt
<1>2. CASE ~(i <= Len(s))
  <2>1. ByteAt(s, i) = 0
    BY <1>2 DEF ByteAt
  <2> QED BY <2>1 DEF Byte
<1> QED BY <1>1, <1>2

\* Value r of triple t.
SextetAt(s, t, r) ==
  SextetOf(ByteAt(s, 3 * t + 1), ByteAt(s, 3 * t + 2), ByteAt(s, 3 * t + 3), r)

\* It has six bits.
LEMMA SextetAtIs ==
  ASSUME NEW s \in Seq(Byte), NEW t \in Nat, NEW r \in 0 .. 3
  PROVE  SextetAt(s, t, r) \in 0 .. 63
<1>1. /\ ByteAt(s, 3 * t + 1) \in Byte /\ ByteAt(s, 3 * t + 2) \in Byte
      /\ ByteAt(s, 3 * t + 3) \in Byte
  <2>1. 3 * t + 1 \in Nat \ {0} /\ 3 * t + 2 \in Nat \ {0} /\ 3 * t + 3 \in Nat \ {0}
    OBVIOUS
  <2> QED BY <2>1, BytesAt
<1> QED BY <1>1, SextetsAre DEF SextetAt

\* Bit j of the input, the highest of a byte first.
InputBit(s, j) ==
  IF j >= 8 * Len(s) THEN 0 ELSE (s[(j \div 8) + 1] \div 2^(8 - 1 - (j % 8))) % 2

\* ... which is a bit of some byte.
LEMMA InputBitIs ==
  ASSUME NEW s \in Seq(Byte), NEW u \in Nat, NEW v \in 0 .. 7, NEW j, j = 8 * u + v
  PROVE  InputBit(s, j) = BitOf(ByteAt(s, u + 1), 7 - v)
<1>1. j \div 8 = u /\ j % 8 = v /\ j \in Nat /\ 8 - 1 - v = 7 - v
  OBVIOUS
<1>2. Len(s) \in Nat
  OBVIOUS
<1>3. j >= 8 * Len(s) <=> ~(u + 1 <= Len(s))
  BY <1>1, <1>2
<1>4. CASE u + 1 <= Len(s)
  BY <1>1, <1>3, <1>4 DEF InputBit, BitOf, ByteAt
<1>5. CASE ~(u + 1 <= Len(s))
  <2>1. InputBit(s, j) = 0 /\ ByteAt(s, u + 1) = 0
    BY <1>3, <1>5 DEF InputBit, ByteAt
  <2>2. 0 \in Byte
    BY DEF Byte
  <2>3. BitOf(0, 7 - v) = 0
    <3>1. v = 0 \/ v = 1 \/ v = 2 \/ v = 3 \/ v = 4 \/ v = 5 \/ v = 6 \/ v = 7
      OBVIOUS
    <3>2. /\ BitOf(0, 0) = 0 /\ BitOf(0, 1) = 0 /\ BitOf(0, 2) = 0 /\ BitOf(0, 3) = 0
          /\ BitOf(0, 4) = 0 /\ BitOf(0, 5) = 0 /\ BitOf(0, 6) = 0 /\ BitOf(0, 7) = 0
      BY DEF BitOf
    <3> QED BY <3>1, <3>2
  <2> QED BY <2>1, <2>3
<1> QED BY <1>4, <1>5

\* The six bits of value r of triple t.
LEMMA SextetBits ==
  ASSUME NEW s \in Seq(Byte), NEW t \in Nat
  PROVE  LET A == ByteAt(s, 3 * t + 1)
             B == ByteAt(s, 3 * t + 2)
             C == ByteAt(s, 3 * t + 3)
         IN /\ \A k \in 0 .. 5 : InputBit(s, 6 * (4 * t + 0) + k) = BitOf(A, 7 - k)
            /\ \A k \in 0 .. 1 : InputBit(s, 6 * (4 * t + 1) + k) = BitOf(A, 1 - k)
            /\ \A k \in 2 .. 5 : InputBit(s, 6 * (4 * t + 1) + k) = BitOf(B, 9 - k)
            /\ \A k \in 0 .. 3 : InputBit(s, 6 * (4 * t + 2) + k) = BitOf(B, 3 - k)
            /\ \A k \in 4 .. 5 : InputBit(s, 6 * (4 * t + 2) + k) = BitOf(C, 11 - k)
            /\ \A k \in 0 .. 5 : InputBit(s, 6 * (4 * t + 3) + k) = BitOf(C, 5 - k)
<1> DEFINE A == ByteAt(s, 3 * t + 1)
           B == ByteAt(s, 3 * t + 2)
           C == ByteAt(s, 3 * t + 3)
<1>0. 3 * t \in Nat /\ 3 * t + 1 \in Nat /\ 3 * t + 2 \in Nat /\ (3 * t + 1) + 1 = 3 * t + 2
      /\ (3 * t + 2) + 1 = 3 * t + 3
  OBVIOUS
<1>1. ASSUME NEW j, NEW v \in 0 .. 7, j = 24 * t + v
      PROVE  InputBit(s, j) = BitOf(A, 7 - v)
  <2>1. j = 8 * (3 * t) + v
    BY <1>1
  <2> QED BY <1>0, <2>1, InputBitIs
<1>2. ASSUME NEW j, NEW v \in 0 .. 7, j = 24 * t + 8 + v
      PROVE  InputBit(s, j) = BitOf(B, 7 - v)
  <2>1. j = 8 * (3 * t + 1) + v
    BY <1>2
  <2>2. InputBit(s, j) = BitOf(ByteAt(s, (3 * t + 1) + 1), 7 - v)
    BY <1>0, <2>1, InputBitIs, ZenonT(40)
  <2> QED BY <1>0, <2>2
<1>3. ASSUME NEW j, NEW v \in 0 .. 7, j = 24 * t + 16 + v
      PROVE  InputBit(s, j) = BitOf(C, 7 - v)
  <2>1. j = 8 * (3 * t + 2) + v
    BY <1>3
  <2>2. InputBit(s, j) = BitOf(ByteAt(s, (3 * t + 2) + 1), 7 - v)
    BY <1>0, <2>1, InputBitIs, ZenonT(40)
  <2> QED BY <1>0, <2>2
<1> HIDE DEF A, B, C
<1>4. ASSUME NEW k \in 0 .. 5 PROVE InputBit(s, 6 * (4 * t + 0) + k) = BitOf(A, 7 - k)
  <2>1. k \in 0 .. 7 /\ 6 * (4 * t + 0) + k = 24 * t + k
    OBVIOUS
  <2> QED BY <1>1, <2>1
<1>5. ASSUME NEW k \in 0 .. 1 PROVE InputBit(s, 6 * (4 * t + 1) + k) = BitOf(A, 1 - k)
  <2>1. k + 6 \in 0 .. 7 /\ 6 * (4 * t + 1) + k = 24 * t + (k + 6) /\ 7 - (k + 6) = 1 - k
    OBVIOUS
  <2>2. InputBit(s, 6 * (4 * t + 1) + k) = BitOf(A, 7 - (k + 6))
    BY <1>1, <2>1
  <2> QED BY <2>1, <2>2
<1>6. ASSUME NEW k \in 2 .. 5 PROVE InputBit(s, 6 * (4 * t + 1) + k) = BitOf(B, 9 - k)
  <2>1. k - 2 \in 0 .. 7 /\ 6 * (4 * t + 1) + k = 24 * t + 8 + (k - 2) /\ 7 - (k - 2) = 9 - k
    OBVIOUS
  <2>2. InputBit(s, 6 * (4 * t + 1) + k) = BitOf(B, 7 - (k - 2))
    BY <1>2, <2>1
  <2> QED BY <2>1, <2>2
<1>7. ASSUME NEW k \in 0 .. 3 PROVE InputBit(s, 6 * (4 * t + 2) + k) = BitOf(B, 3 - k)
  <2>1. k + 4 \in 0 .. 7 /\ 6 * (4 * t + 2) + k = 24 * t + 8 + (k + 4) /\ 7 - (k + 4) = 3 - k
    OBVIOUS
  <2>2. InputBit(s, 6 * (4 * t + 2) + k) = BitOf(B, 7 - (k + 4))
    BY <1>2, <2>1
  <2> QED BY <2>1, <2>2
<1>8. ASSUME NEW k \in 4 .. 5 PROVE InputBit(s, 6 * (4 * t + 2) + k) = BitOf(C, 11 - k)
  <2>1. k - 4 \in 0 .. 7 /\ 6 * (4 * t + 2) + k = 24 * t + 16 + (k - 4) /\ 7 - (k - 4) = 11 - k
    OBVIOUS
  <2>2. InputBit(s, 6 * (4 * t + 2) + k) = BitOf(C, 7 - (k - 4))
    BY <1>3, <2>1
  <2> QED BY <2>1, <2>2
<1>9. ASSUME NEW k \in 0 .. 5 PROVE InputBit(s, 6 * (4 * t + 3) + k) = BitOf(C, 5 - k)
  <2>1. k + 2 \in 0 .. 7 /\ 6 * (4 * t + 3) + k = 24 * t + 16 + (k + 2) /\ 7 - (k + 2) = 5 - k
    OBVIOUS
  <2>2. InputBit(s, 6 * (4 * t + 3) + k) = BitOf(C, 7 - (k + 2))
    BY <1>3, <2>1
  <2> QED BY <2>1, <2>2
<1> QED BY <1>4, <1>5, <1>6, <1>7, <1>8, <1>9 DEF A, B, C

\* Six bits, as two and four or as four and two.
LEMMA SumOfSix ==
  ASSUME NEW b, b[0] \in Int, b[1] \in Int, b[2] \in Int,
                b[3] \in Int, b[4] \in Int, b[5] \in Int
  PROVE  /\ 32 * b[0] + 16 * b[1] + 8 * b[2] + 4 * b[3] + 2 * b[4] + b[5]
              = 16 * (2 * b[0] + b[1]) + (8 * b[2] + 4 * b[3] + 2 * b[4] + b[5])
         /\ 32 * b[0] + 16 * b[1] + 8 * b[2] + 4 * b[3] + 2 * b[4] + b[5]
              = 4 * (8 * b[0] + 4 * b[1] + 2 * b[2] + b[3]) + (2 * b[4] + b[5])
OBVIOUS

\* The value the reference collects is that of the triple.
LEMMA SextetFromBits ==
  ASSUME NEW s \in Seq(Byte), NEW t \in Nat, NEW r \in 0 .. 3,
         NEW b, \A k \in 0 .. 5 : b[k] = InputBit(s, 6 * (4 * t + r) + k),
         NEW g, Collects(g, b)
  PROVE  g[6] = SextetAt(s, t, r)
<1>1. PICK A, B, C : /\ A = ByteAt(s, 3 * t + 1) /\ B = ByteAt(s, 3 * t + 2)
                     /\ C = ByteAt(s, 3 * t + 3)
  OBVIOUS
<1>2. A \in Byte /\ B \in Byte /\ C \in Byte
  <2>1. 3 * t + 1 \in Nat \ {0} /\ 3 * t + 2 \in Nat \ {0} /\ 3 * t + 3 \in Nat \ {0}
    OBVIOUS
  <2> QED BY <1>1, <2>1, BytesAt
<1>3. SextetAt(s, t, r) = SextetOf(A, B, C, r)
  BY <1>1 DEF SextetAt
<1>4. r = 0 => /\ b[0] = BitOf(A, 7) /\ b[1] = BitOf(A, 6) /\ b[2] = BitOf(A, 5)
               /\ b[3] = BitOf(A, 4) /\ b[4] = BitOf(A, 3) /\ b[5] = BitOf(A, 2)
  <2>1. \A k \in 0 .. 5 : InputBit(s, 6 * (4 * t + 0) + k) = BitOf(A, 7 - k)
    BY <1>1, SextetBits
  <2>2. r = 0 => \A k \in 0 .. 5 : b[k] = BitOf(A, 7 - k)
    BY <2>1
  <2>3. r = 0 => /\ b[0] = BitOf(A, 7 - 0) /\ b[1] = BitOf(A, 7 - 1) /\ b[2] = BitOf(A, 7 - 2)
                 /\ b[3] = BitOf(A, 7 - 3) /\ b[4] = BitOf(A, 7 - 4) /\ b[5] = BitOf(A, 7 - 5)
    BY <2>2
  <2> QED BY <2>3
<1>5. r = 1 => /\ b[0] = BitOf(A, 1) /\ b[1] = BitOf(A, 0) /\ b[2] = BitOf(B, 7)
               /\ b[3] = BitOf(B, 6) /\ b[4] = BitOf(B, 5) /\ b[5] = BitOf(B, 4)
  <2>1. /\ \A k \in 0 .. 1 : InputBit(s, 6 * (4 * t + 1) + k) = BitOf(A, 1 - k)
        /\ \A k \in 2 .. 5 : InputBit(s, 6 * (4 * t + 1) + k) = BitOf(B, 9 - k)
    BY <1>1, SextetBits
  <2>2. r = 1 => /\ \A k \in 0 .. 1 : b[k] = BitOf(A, 1 - k)
                 /\ \A k \in 2 .. 5 : b[k] = BitOf(B, 9 - k)
    BY <2>1
  <2>3. r = 1 => /\ b[0] = BitOf(A, 1 - 0) /\ b[1] = BitOf(A, 1 - 1) /\ b[2] = BitOf(B, 9 - 2)
                 /\ b[3] = BitOf(B, 9 - 3) /\ b[4] = BitOf(B, 9 - 4) /\ b[5] = BitOf(B, 9 - 5)
    BY <2>2
  <2> QED BY <2>3
<1>6. r = 2 => /\ b[0] = BitOf(B, 3) /\ b[1] = BitOf(B, 2) /\ b[2] = BitOf(B, 1)
               /\ b[3] = BitOf(B, 0) /\ b[4] = BitOf(C, 7) /\ b[5] = BitOf(C, 6)
  <2>1. /\ \A k \in 0 .. 3 : InputBit(s, 6 * (4 * t + 2) + k) = BitOf(B, 3 - k)
        /\ \A k \in 4 .. 5 : InputBit(s, 6 * (4 * t + 2) + k) = BitOf(C, 11 - k)
    BY <1>1, SextetBits
  <2>2. r = 2 => /\ \A k \in 0 .. 3 : b[k] = BitOf(B, 3 - k)
                 /\ \A k \in 4 .. 5 : b[k] = BitOf(C, 11 - k)
    BY <2>1
  <2>3. r = 2 => /\ b[0] = BitOf(B, 3 - 0) /\ b[1] = BitOf(B, 3 - 1) /\ b[2] = BitOf(B, 3 - 2)
                 /\ b[3] = BitOf(B, 3 - 3) /\ b[4] = BitOf(C, 11 - 4) /\ b[5] = BitOf(C, 11 - 5)
    BY <2>2
  <2> QED BY <2>3
<1>7. r = 3 => /\ b[0] = BitOf(C, 5) /\ b[1] = BitOf(C, 4) /\ b[2] = BitOf(C, 3)
               /\ b[3] = BitOf(C, 2) /\ b[4] = BitOf(C, 1) /\ b[5] = BitOf(C, 0)
  <2>1. \A k \in 0 .. 5 : InputBit(s, 6 * (4 * t + 3) + k) = BitOf(C, 5 - k)
    BY <1>1, SextetBits
  <2>2. r = 3 => \A k \in 0 .. 5 : b[k] = BitOf(C, 5 - k)
    BY <2>1
  <2>3. r = 3 => /\ b[0] = BitOf(C, 5 - 0) /\ b[1] = BitOf(C, 5 - 1) /\ b[2] = BitOf(C, 5 - 2)
                 /\ b[3] = BitOf(C, 5 - 3) /\ b[4] = BitOf(C, 5 - 4) /\ b[5] = BitOf(C, 5 - 5)
    BY <2>2
  <2> QED BY <2>3
<1>8. r = 0 \/ r = 1 \/ r = 2 \/ r = 3
  OBVIOUS
<1>9. \A n \in 0 .. 7 : BitOf(A, n) \in 0 .. 1 /\ BitOf(B, n) \in 0 .. 1 /\ BitOf(C, n) \in 0 .. 1
  BY <1>2, ByteBits
<1>10. \A k \in 0 .. 5 : b[k] \in 0 .. 1
  <2>1. b[0] \in 0 .. 1 /\ b[1] \in 0 .. 1 /\ b[2] \in 0 .. 1
        /\ b[3] \in 0 .. 1 /\ b[4] \in 0 .. 1 /\ b[5] \in 0 .. 1
    BY <1>4, <1>5, <1>6, <1>7, <1>8, <1>9, SMTT(30)
  <2> QED BY <2>1
<1>11. g[6] = 32 * b[0] + 16 * b[1] + 8 * b[2] + 4 * b[3] + 2 * b[4] + b[5]
  BY <1>10, SixBits
<1>12. CASE r = 0
  <2>1. g[6] = A \div 4
    BY <1>2, <1>4, <1>11, <1>12, ByteBits
  <2> QED BY <1>2, <1>3, <1>12, <2>1, SextetsAre
<1>13. CASE r = 1
  <2>1. A % 4 = 2 * b[0] + b[1] /\ B \div 16 = 8 * b[2] + 4 * b[3] + 2 * b[4] + b[5]
    BY <1>2, <1>5, <1>13, ByteBits, SMTT(30)
  <2>3. b[0] \in Int /\ b[1] \in Int /\ b[2] \in Int /\ b[3] \in Int /\ b[4] \in Int /\ b[5] \in Int
    BY <1>10, SMTT(30)
  <2>2. g[6] = 16 * (A % 4) + (B \div 16)
    BY <1>11, <2>1, <2>3, SumOfSix
  <2> QED BY <1>2, <1>3, <1>13, <2>2, SextetsAre
<1>14. CASE r = 2
  <2>1. B % 16 = 8 * b[0] + 4 * b[1] + 2 * b[2] + b[3] /\ C \div 64 = 2 * b[4] + b[5]
    BY <1>2, <1>6, <1>14, ByteBits
  <2>3. b[0] \in Int /\ b[1] \in Int /\ b[2] \in Int /\ b[3] \in Int /\ b[4] \in Int /\ b[5] \in Int
    BY <1>10
  <2>2. g[6] = 4 * (B % 16) + (C \div 64)
    BY <1>11, <2>1, <2>3, SumOfSix
  <2> QED BY <1>2, <1>3, <1>14, <2>2, SextetsAre
<1>15. CASE r = 3
  <2>1. g[6] = C % 64
    BY <1>2, <1>7, <1>11, <1>15, ByteBits
  <2> QED BY <1>2, <1>3, <1>15, <2>1, SextetsAre
<1> QED BY <1>8, <1>12, <1>13, <1>14, <1>15

\* Eight bits at a time in, six at a time out: four values a triple.
LEMMA RegroupedBytes ==
  ASSUME NEW s \in Seq(Byte), NEW n \in Nat, NEW t \in Nat, NEW r \in 0 .. 3,
         4 * t + r + 1 \in 1 .. n
  PROVE  Regroup(s, 8, 6, n)[4 * t + r + 1] = SextetAt(s, t, r)
<1> DEFINE F(ii, g) == [k \in 0 .. 6 |-> IF k = 0 THEN 0 ELSE
                          2 * g[k - 1] + InputBit(s, 6 * ii + k - 1)]
           first(ii) == CHOOSE g : g = F(ii, g)
           i == 4 * t + r
           b == [k \in 0 .. 5 |-> InputBit(s, 6 * i + k)]
<1>1. Regroup(s, 8, 6, n) = [ii \in 1 .. n |-> first(ii - 1)[6]]
  BY DEF Regroup, InputBit
<1>2. i + 1 - 1 = i /\ i \in Nat
  OBVIOUS
<1>3. Regroup(s, 8, 6, n)[i + 1] = first(i)[6]
  <2> HIDE DEF first
  <2> QED BY <1>1, <1>2
<1>4. \A g : g = F(i, g) <=> Collects(g, b)
  <2> SUFFICES ASSUME NEW g PROVE g = F(i, g) <=> Collects(g, b)
    OBVIOUS
  <2>1. ASSUME NEW k \in 0 .. 6, k # 0
        PROVE  InputBit(s, 6 * i + k - 1) = b[k - 1]
    <3>1. k - 1 \in 0 .. 5 /\ 6 * i + k - 1 = 6 * i + (k - 1)
      BY <1>2, <2>1
    <3> HIDE DEF i
    <3>2. b[k - 1] = InputBit(s, 6 * i + (k - 1))
      BY <3>1
    <3> QED BY <3>1, <3>2, Zenon
  <2> HIDE DEF i, b
  <2>2. F(i, g) = [k \in 0 .. 6 |-> IF k = 0 THEN 0 ELSE 2 * g[k - 1] + b[k - 1]]
    BY <2>1, Zenon
  <2> QED BY <2>2, Zenon DEF Collects
<1>5. \A k \in 0 .. 5 : b[k] \in 0 .. 1
  <2> SUFFICES ASSUME NEW k \in 0 .. 5 PROVE b[k] \in 0 .. 1
    OBVIOUS
  <2> DEFINE j == 6 * i + k
             u == j \div 8
             v == j % 8
  <2>1. j \in Nat /\ u \in Nat /\ v \in 0 .. 7 /\ j = 8 * u + v
    BY <1>2
  <2> HIDE DEF j, u, v
  <2>2. InputBit(s, j) = BitOf(ByteAt(s, u + 1), 7 - v)
    BY <2>1, InputBitIs
  <2>3. ByteAt(s, u + 1) \in Byte /\ 7 - v \in 0 .. 7
    <3>1. u + 1 \in Nat \ {0} /\ 7 - v \in 0 .. 7
      BY <2>1
    <3> QED BY <3>1, BytesAt
  <2>4. BitOf(ByteAt(s, u + 1), 7 - v) \in 0 .. 1
    BY <2>3, ByteBits
  <2> HIDE DEF i
  <2>5. b[k] = InputBit(s, j)
    BY DEF j
  <2> QED BY <2>2, <2>4, <2>5
<1>6. first(i) = F(i, first(i))
  <2>1. \E g : g = F(i, g)
    <3>1. \E g : Collects(g, b)
      <4> HIDE DEF b
      <4> QED BY <1>5, SixBits
    <3> HIDE DEF b, i, F
    <3> QED BY <1>4, <3>1
  <2> HIDE DEF F, i
  <2> QED BY <2>1
<1>7. \A k \in 0 .. 5 : b[k] = InputBit(s, 6 * (4 * t + r) + k)
  OBVIOUS
<1> HIDE DEF first, b, F
<1>8. Collects(first(i), b)
  <2> HIDE DEF i
  <2> QED BY <1>4, <1>6
<1>9. first(i)[6] = SextetAt(s, t, r)
  BY <1>7, <1>8, SextetFromBits
<1> QED BY <1>3, <1>9

\* A number as a multiple of three and what is left.
LEMMA InThrees ==
  ASSUME NEW n \in Nat
  PROVE  /\ n \div 3 \in Nat /\ n % 3 \in 0 .. 2 /\ n = 3 * (n \div 3) + (n % 3)
         /\ (8 * n) \div 6 = 4 * (n \div 3) + (n % 3)
         /\ (8 * n + 5) \div 6 = B64Len(n)
         /\ B64Len(n) = 4 * (n \div 3) + (IF n % 3 = 0 THEN 0 ELSE (n % 3) + 1)
         /\ B64Len(n) \in Nat
<1>1. n \div 3 \in Nat /\ n % 3 \in 0 .. 2 /\ n = 3 * (n \div 3) + (n % 3)
  OBVIOUS
<1>2. PICK q, p : q = n \div 3 /\ p = n % 3
  OBVIOUS
<1>3. q \in Nat /\ p \in 0 .. 2 /\ n = 3 * q + p
  BY <1>1, <1>2
<1>4. (8 * n) \div 6 = 4 * q + p
  BY <1>3
<1>5. (8 * n + 5) \div 6 = 4 * q + (IF p = 0 THEN 0 ELSE p + 1)
  BY <1>3
<1>6. B64Len(n) = 4 * q + (IF p = 0 THEN 0 ELSE p + 1)
  <2>1. B64Len(n) = q * 4 + (IF p = 0 THEN 0 ELSE p + 1)
    BY <1>2 DEF B64Len
  <2> QED BY <1>3, <2>1
<1>7. B64Len(n) \in Nat
  BY <1>3, <1>6
<1> QED BY <1>1, <1>2, <1>4, <1>5, <1>6, <1>7

\* The text of the reference, letter by letter.
LetterAt(s, t, r) == Alphabet[SextetAt(s, t, r)]

\* It has B64Len letters, four for each triple.
LEMMA ReferenceText ==
  ASSUME NEW s \in Seq(Byte)
  PROVE  /\ Measures(ReferenceEncode(s), B64Len(Len(s)))
         /\ B64Len(Len(s)) \in Nat
         /\ \A t \in Nat, r \in 0 .. 3 : 4 * t + r + 1 \in 1 .. B64Len(Len(s)) =>
              ReferenceEncode(s)[4 * t + r + 1] = LetterAt(s, t, r)
<1> DEFINE n == B64Len(Len(s))
           x == Regroup(s, 8, 6, n)
           y == [i \in DOMAIN x |-> Alphabet[x[i]]]
<1>1. Len(s) \in Nat
  OBVIOUS
<1>2. n \in Nat /\ (8 * Len(s) + 5) \div 6 = n
  BY <1>1, InThrees
<1> HIDE DEF n
<1>3. ReferenceEncode(s) = y
  BY <1>2, Zenon DEF ReferenceEncode
<1>4. DOMAIN x = 1 .. n
  BY DEF Regroup
<1>5. y = [i \in 1 .. n |-> y[i]]
  BY <1>4
<1>6. Measures(y, n)
  <2> HIDE DEF y
  <2> QED BY <1>2, <1>5, Measured
<1>7. ASSUME NEW t \in Nat, NEW r \in 0 .. 3, 4 * t + r + 1 \in 1 .. n
      PROVE  y[4 * t + r + 1] = LetterAt(s, t, r)
  <2>1. x[4 * t + r + 1] = SextetAt(s, t, r)
    BY <1>2, <1>7, RegroupedBytes
  <2> HIDE DEF x
  <2>2. y[4 * t + r + 1] = Alphabet[x[4 * t + r + 1]]
    BY <1>4, <1>7
  <2> QED BY <2>1, <2>2, Zenon DEF LetterAt
<1> HIDE DEF y
<1> QED BY <1>2, <1>3, <1>6, <1>7 DEF n

-----------------------------------------------------------------------------
(* The scalar encoder                                                        *)

EncodeStates == [bits : {0, 2, 4}, acc : {x \in Nat : Short(x)}, out : Seq(Byte)]

\* The accumulator keeps its last two bytes.
LEMMA Accumulates ==
  ASSUME NEW acc \in Nat, NEW byte \in Byte
  PROVE  (ShiftLeft(acc, 8) | byte) = 256 * (acc % 256) + byte
<1>1. ShiftLeft(acc, 8) = (acc * 256) % 65536
  BY DEF ShiftLeft, Word16
<1>2. (acc * 256) % 65536 = 256 * (acc % 256) /\ acc % 256 \in Byte
  BY DEF Byte
<1>3. ShiftLeft(acc, 8) = 256 * (acc % 256)
  BY <1>1, <1>2
<1> QED BY <1>2, <1>3, Ors

\* A value masked to six bits becomes its letter.
LEMMA LetterIs ==
  ASSUME NEW x \in Nat, Short(x)
  PROVE  CharOf[x & \h3F] = Alphabet[x % 64] /\ Alphabet[x % 64] \in Byte /\ x % 64 \in 0 .. 63
<1>1. (x & \h3F) = x % 64
  <2>1. (x & 63) = x % 64
    BY Masks
  <2> QED BY <2>1
<1>2. x % 64 \in 0 .. 63
  OBVIOUS
<1> QED BY <1>1, <1>2, ScalarAlphabet

\* What a byte adds to the text, after none, two or four bits left over.
Adds(q, byte, w, e) ==
  /\ e = EncodeByte(q, byte) /\ e \in EncodeStates /\ e.acc % 256 = byte
  /\ e.out = q.out \o w /\ IsSeq(w)
  /\ q.bits = 0 => /\ e.bits = 2 /\ Len(w) = 1
                   /\ w[1] = Alphabet[byte \div 4]
  /\ q.bits = 2 => /\ e.bits = 4 /\ Len(w) = 1
                   /\ w[1] = Alphabet[16 * ((q.acc % 256) % 4) + (byte \div 16)]
  /\ q.bits = 4 => /\ e.bits = 0 /\ Len(w) = 2
                   /\ w[1] = Alphabet[4 * ((q.acc % 256) % 16) + (byte \div 64)]
                   /\ w[2] = Alphabet[byte % 64]

\* Each state leads to such a state.
LEMMA EncodesByte ==
  ASSUME NEW q \in EncodeStates, NEW byte \in Byte
  PROVE  \E w, e : Adds(q, byte, w, e)
<1>1. PICK a : a = q.acc % 256
  OBVIOUS
<1>2. PICK acc : acc = ShiftLeft(q.acc, 8) | byte
  OBVIOUS
<1>3. PICK bits : bits = q.bits + 8
  OBVIOUS
<1>4. PICK w : w = [k \in 1 .. bits \div 6 |-> CharOf[ShiftRight(acc, bits - 6 * k) & \h3F]]
  OBVIOUS
<1>5. PICK e : e = [bits |-> bits % 6, acc |-> acc, out |-> q.out \o w]
  OBVIOUS
<1>6. e = EncodeByte(q, byte)
  BY <1>2, <1>3, <1>4, <1>5, Zenon DEF EncodeByte
<1>7. q.acc \in Nat /\ q.out \in Seq(Byte) /\ q.bits \in {0, 2, 4} /\ byte \in Nat /\ byte < 256
  BY DEF EncodeStates, Byte
<1>8. a \in Nat /\ a < 256
  BY <1>1, <1>7
<1>9. acc = 256 * a + byte
  BY <1>1, <1>2, <1>7, Accumulates
<1>10. acc \in Nat /\ Short(acc) /\ acc % 256 = byte
  <2>1. acc \in Nat /\ acc < 65536 /\ acc % 256 = byte
    BY <1>7, <1>8, <1>9
  <2> QED BY <2>1 DEF Short
<1>11. ASSUME NEW m \in {0, 2, 4, 6}
       PROVE  ShiftRight(acc, m) \in Nat /\ Short(ShiftRight(acc, m))
  <2>1. acc \in Nat /\ acc < 65536
    BY <1>7, <1>8, <1>9
  <2>2. /\ ShiftRight(acc, 0) = acc /\ ShiftRight(acc, 2) = acc \div 4
        /\ ShiftRight(acc, 4) = acc \div 16 /\ ShiftRight(acc, 6) = acc \div 64
    BY <2>1 DEF ShiftRight
  <2>3. /\ acc \div 4 \in Nat /\ acc \div 4 < 65536 /\ acc \div 16 \in Nat /\ acc \div 16 < 65536
        /\ acc \div 64 \in Nat /\ acc \div 64 < 65536
    BY <2>1
  <2> QED BY <2>1, <2>2, <2>3 DEF Short
<1>12. /\ ShiftRight(acc, 0) % 64 = byte % 64
       /\ ShiftRight(acc, 2) % 64 = byte \div 4
       /\ ShiftRight(acc, 4) % 64 = 16 * (a % 4) + (byte \div 16)
       /\ ShiftRight(acc, 6) % 64 = 4 * (a % 16) + (byte \div 64)
  <2>1. /\ ShiftRight(acc, 0) = acc /\ ShiftRight(acc, 2) = acc \div 4
        /\ ShiftRight(acc, 4) = acc \div 16 /\ ShiftRight(acc, 6) = acc \div 64
    BY <1>7, <1>8, <1>9 DEF ShiftRight
  <2>2. acc % 64 = byte % 64
    BY <1>7, <1>8, <1>9
  <2>3. (acc \div 4) % 64 = byte \div 4
    BY <1>7, <1>8, <1>9
  <2>4. (acc \div 16) % 64 = 16 * (a % 4) + (byte \div 16)
    BY <1>7, <1>8, <1>9, SMTT(30)
  <2>5. (acc \div 64) % 64 = 4 * (a % 16) + (byte \div 64)
    BY <1>7, <1>8, <1>9
  <2> QED BY <2>1, <2>2, <2>3, <2>4, <2>5
<1>13. ASSUME NEW m \in {0, 2, 4, 6}
       PROVE  /\ CharOf[ShiftRight(acc, m) & \h3F] = Alphabet[ShiftRight(acc, m) % 64]
              /\ Alphabet[ShiftRight(acc, m) % 64] \in Byte
  BY <1>11, LetterIs
<1>14. ASSUME q.bits = 0 PROVE Adds(q, byte, w, e)
  <2>1. bits \div 6 = 1 /\ bits % 6 = 2 /\ bits - 6 * 1 = 2 /\ bits = 8
    BY <1>3, <1>14
  <2>2. w = [k \in 1 .. 1 |-> w[k]] /\ w[1] = CharOf[ShiftRight(acc, 2) & \h3F]
    BY <1>4, <2>1
  <2>3. w[1] = Alphabet[byte \div 4] /\ w[1] \in Byte
    BY <1>12, <1>13, <2>2
  <2>4. w \in Seq(Byte) /\ Len(w) = 1 /\ IsSeq(w)
    BY <2>2, <2>3 DEF IsSeq
  <2>5. e \in EncodeStates
    BY <1>5, <1>7, <1>10, <2>1, <2>4 DEF EncodeStates
  <2>7. e.bits = 2 /\ e.out = q.out \o w /\ e.acc % 256 = byte
    BY <1>5, <1>10, <2>1
  <2> QED BY <1>6, <1>14, <2>3, <2>4, <2>5, <2>7 DEF Adds
<1>15. ASSUME q.bits = 2 PROVE Adds(q, byte, w, e)
  <2>1. bits \div 6 = 1 /\ bits % 6 = 4 /\ bits - 6 * 1 = 4 /\ bits = 10
    BY <1>3, <1>15
  <2>2. w = [k \in 1 .. 1 |-> w[k]] /\ w[1] = CharOf[ShiftRight(acc, 4) & \h3F]
    BY <1>4, <2>1
  <2>3. w[1] = Alphabet[16 * (a % 4) + (byte \div 16)] /\ w[1] \in Byte
    BY <1>12, <1>13, <2>2
  <2>4. w \in Seq(Byte) /\ Len(w) = 1 /\ IsSeq(w)
    BY <2>2, <2>3 DEF IsSeq
  <2>5. e \in EncodeStates
    BY <1>5, <1>7, <1>10, <2>1, <2>4 DEF EncodeStates
  <2>7. e.bits = 4 /\ e.out = q.out \o w /\ e.acc % 256 = byte
    BY <1>5, <1>10, <2>1
  <2> QED BY <1>1, <1>6, <1>15, <2>3, <2>4, <2>5, <2>7 DEF Adds
<1>16. ASSUME q.bits = 4 PROVE Adds(q, byte, w, e)
  <2>1. bits \div 6 = 2 /\ bits % 6 = 0 /\ bits - 6 * 1 = 6 /\ bits - 6 * 2 = 0 /\ bits = 12
    BY <1>3, <1>16
  <2>2. /\ w = [k \in 1 .. 2 |-> w[k]] /\ w[1] = CharOf[ShiftRight(acc, 6) & \h3F]
        /\ w[2] = CharOf[ShiftRight(acc, 0) & \h3F]
    BY <1>4, <2>1
  <2>3. w[1] = Alphabet[4 * (a % 16) + (byte \div 64)] /\ w[1] \in Byte
    BY <1>12, <1>13, <2>2
  <2>4. w[2] = Alphabet[byte % 64] /\ w[2] \in Byte
    BY <1>12, <1>13, <2>2
  <2>5. w \in Seq(Byte) /\ Len(w) = 2 /\ IsSeq(w)
    BY <2>2, <2>3, <2>4 DEF IsSeq
  <2>6. e \in EncodeStates
    BY <1>5, <1>7, <1>10, <2>1, <2>5 DEF EncodeStates
  <2>7. e.bits = 0 /\ e.out = q.out \o w /\ e.acc % 256 = byte
    BY <1>5, <1>10, <2>1
  <2> QED BY <1>1, <1>6, <1>16, <2>3, <2>4, <2>5, <2>6, <2>7 DEF Adds
<1>17. Adds(q, byte, w, e)
  BY <1>7, <1>14, <1>15, <1>16
<1> QED BY <1>17, Zenon

\* A text that begins as done and goes on with the first n letters of T.
Extended(o, done, T, n) ==
  /\ IsSeq(o) /\ Len(o) = Len(done) + n
  /\ \A i \in 1 .. Len(done) : o[i] = done[i]
  /\ \A i \in 1 .. n : o[Len(done) + i] = T[i]

\* A text goes on with what is appended to it.
LEMMA ExtendsMore ==
  ASSUME NEW done, IsSeq(done), NEW T, NEW n \in Nat, NEW o, Extended(o, done, T, n),
         NEW w, IsSeq(w), \A i \in 1 .. Len(w) : w[i] = T[n + i]
  PROVE  Extended(o \o w, done, T, n + Len(w))
<1>1. Len(done) \in Nat /\ Len(w) \in Nat /\ IsSeq(o) /\ Len(o) = Len(done) + n
  BY DEF Extended, IsSeq
<1>2. IsSeq(o \o w) /\ Len(o \o w) = Len(done) + n + Len(w)
  BY <1>1, ConcatIs
<1>3. ASSUME NEW i \in 1 .. Len(done) PROVE (o \o w)[i] = done[i]
  <2>1. i \in 1 .. Len(o) + Len(w) /\ i <= Len(o)
    BY <1>1
  <2>2. (o \o w)[i] = o[i]
    BY <1>1, <2>1, ConcatAt
  <2> QED BY <2>2 DEF Extended
<1>4. ASSUME NEW i \in 1 .. n + Len(w) PROVE (o \o w)[Len(done) + i] = T[i]
  <2>1. Len(done) + i \in 1 .. Len(o) + Len(w)
    BY <1>1
  <2>2. (o \o w)[Len(done) + i] =
          IF Len(done) + i <= Len(o) THEN o[Len(done) + i] ELSE w[Len(done) + i - Len(o)]
    BY <1>1, <2>1, ConcatAt, SMTT(30)
  <2>3. CASE i <= n
    <3>1. i \in 1 .. n /\ Len(done) + i <= Len(o)
      BY <1>1, <2>3
    <3>2. o[Len(done) + i] = T[i]
      BY <3>1 DEF Extended
    <3> QED BY <2>2, <3>1, <3>2
  <2>4. CASE ~(i <= n)
    <3>1. /\ ~(Len(done) + i <= Len(o)) /\ i - n \in 1 .. Len(w)
          /\ Len(done) + i - Len(o) = i - n /\ n + (i - n) = i
      BY <1>1, <2>4
    <3>2. w[i - n] = T[n + (i - n)]
      BY <3>1
    <3> QED BY <2>2, <3>1, <3>2
  <2> QED BY <2>3, <2>4
<1>5. Len(o \o w) = Len(done) + (n + Len(w))
  BY <1>1, <1>2
<1> QED BY <1>2, <1>3, <1>4, <1>5 DEF Extended

\* The letters a byte completes are within the text.
LEMMA RoomForByte ==
  ASSUME NEW n \in Nat, NEW t \in Nat, NEW p \in 0 .. 2, 3 * t + p + 1 <= n
  PROVE  4 * t + p + 1 <= B64Len(n) /\ (p = 2 => 4 * t + 4 <= B64Len(n)) /\ B64Len(n) \in Nat
<1>1. PICK q, r : q = n \div 3 /\ r = n % 3
  OBVIOUS
<1>2. q \in Nat /\ r \in 0 .. 2 /\ n = 3 * q + r /\ B64Len(n) \in Nat
      /\ B64Len(n) = 4 * q + (IF r = 0 THEN 0 ELSE r + 1)
  BY <1>1, InThrees
<1>3. t <= q /\ (t = q => p + 1 <= r)
  BY <1>2
<1>4. CASE t = q
  BY <1>2, <1>3, <1>4
<1>5. CASE t + 1 <= q
  BY <1>2, <1>5
<1> QED BY <1>2, <1>3, <1>4, <1>5

\* After k bytes: the letters that are whole, and the last byte in the accumulator.
ScalarState(f, done, s, k) ==
  /\ f[k] \in EncodeStates /\ f[k].bits = 2 * (k % 3)
  /\ k > 0 => f[k].acc % 256 = s[k]
  /\ Extended(f[k].out, done, ReferenceEncode(s), (8 * k) \div 6)

\* One byte more.
LEMMA ScalarStep ==
  ASSUME NEW done, IsSeq(done), NEW s \in Seq(Byte), NEW f, NEW k \in 0 .. Len(s) - 1,
         ScalarState(f, done, s, k), f[k + 1] = EncodeByte(f[k], s[k + 1])
  PROVE  ScalarState(f, done, s, k + 1)
<1>1. Len(s) \in Nat /\ k \in Nat /\ k + 1 \in 1 .. Len(s) /\ s[k + 1] \in Byte
  <2>1. k + 1 \in 1 .. Len(s) /\ Len(s) \in Nat /\ k \in Nat
    OBVIOUS
  <2> QED BY <2>1
<1>2. PICK t, p : t = k \div 3 /\ p = k % 3
  OBVIOUS
<1>3. t \in Nat /\ p \in 0 .. 2 /\ k = 3 * t + p /\ (8 * k) \div 6 = 4 * t + p
  BY <1>1, <1>2, InThrees
<1>4. PICK T : T = ReferenceEncode(s)
  OBVIOUS
<1>5. PICK w, e : Adds(f[k], s[k + 1], w, e)
  BY <1>1, EncodesByte DEF ScalarState
<1>6. f[k].bits = 2 * p /\ (k > 0 => f[k].acc % 256 = s[k])
      /\ Extended(f[k].out, done, T, 4 * t + p)
  BY <1>2, <1>3, <1>4 DEF ScalarState
<1>7. /\ f[k + 1] = e /\ e \in EncodeStates /\ e.acc % 256 = s[k + 1]
      /\ e.out = f[k].out \o w /\ IsSeq(w)
  BY <1>5 DEF Adds
<1>8. /\ 4 * t + p + 1 <= B64Len(Len(s)) /\ (p = 2 => 4 * t + 4 <= B64Len(Len(s)))
      /\ B64Len(Len(s)) \in Nat
  <2>1. 3 * t + p + 1 <= Len(s)
    BY <1>1, <1>3
  <2> QED BY <1>1, <1>3, <2>1, RoomForByte
<1>9. /\ T[4 * t + p + 1] = LetterAt(s, t, p)
      /\ p = 2 => T[4 * t + 4] = LetterAt(s, t, 3)
  <2>1. 4 * t + p + 1 \in 1 .. B64Len(Len(s)) /\ p \in 0 .. 3
    BY <1>3, <1>8
  <2>2. T[4 * t + p + 1] = LetterAt(s, t, p)
    BY <1>3, <1>4, <2>1, ReferenceText
  <2>3. ASSUME p = 2 PROVE T[4 * t + 4] = LetterAt(s, t, 3)
    <3>1. 4 * t + 3 + 1 \in 1 .. B64Len(Len(s)) /\ 3 \in 0 .. 3 /\ 4 * t + 3 + 1 = 4 * t + 4
      BY <1>3, <1>8, <2>3
    <3>2. T[4 * t + 3 + 1] = LetterAt(s, t, 3)
      BY <1>3, <1>4, <3>1, ReferenceText
    <3> QED BY <3>1, <3>2
  <2> QED BY <2>2, <2>3
<1>10. PICK A, B, C : /\ A = ByteAt(s, 3 * t + 1) /\ B = ByteAt(s, 3 * t + 2)
                      /\ C = ByteAt(s, 3 * t + 3)
  OBVIOUS
<1>11. A \in Byte /\ B \in Byte /\ C \in Byte
  <2>1. 3 * t + 1 \in Nat \ {0} /\ 3 * t + 2 \in Nat \ {0} /\ 3 * t + 3 \in Nat \ {0}
    BY <1>3
  <2> QED BY <1>10, <2>1, BytesAt
<1>12. /\ LetterAt(s, t, 0) = Alphabet[A \div 4]
       /\ LetterAt(s, t, 1) = Alphabet[16 * (A % 4) + (B \div 16)]
       /\ LetterAt(s, t, 2) = Alphabet[4 * (B % 16) + (C \div 64)]
       /\ LetterAt(s, t, 3) = Alphabet[C % 64]
  BY <1>10, <1>11, SextetsAre DEF LetterAt, SextetAt
<1>13. ASSUME p = 0
       PROVE  e.bits = 2 * ((k + 1) % 3) /\ Len(w) = 1 /\ w[1] = T[4 * t + p + 1]
  <2>1. s[k + 1] = A /\ (k + 1) % 3 = 1 /\ f[k].bits = 0
    BY <1>1, <1>3, <1>6, <1>10, <1>13 DEF ByteAt
  <2>2. e.bits = 2 /\ Len(w) = 1 /\ w[1] = Alphabet[A \div 4]
    BY <1>5, <2>1 DEF Adds
  <2>3. T[4 * t + p + 1] = LetterAt(s, t, 0)
    BY <1>9, <1>13
  <2> QED BY <1>12, <2>1, <2>2, <2>3
<1>14. ASSUME p = 1
       PROVE  e.bits = 2 * ((k + 1) % 3) /\ Len(w) = 1 /\ w[1] = T[4 * t + p + 1]
  <2>1. /\ s[k + 1] = B /\ (k + 1) % 3 = 2 /\ f[k].bits = 2
        /\ s[k] = A /\ k > 0
    BY <1>1, <1>3, <1>6, <1>10, <1>14 DEF ByteAt
  <2>2. f[k].acc % 256 = A
    BY <1>6, <2>1
  <2>3. e.bits = 4 /\ Len(w) = 1 /\ w[1] = Alphabet[16 * (A % 4) + (B \div 16)]
    BY <1>5, <2>1, <2>2 DEF Adds
  <2>4. T[4 * t + p + 1] = LetterAt(s, t, 1)
    BY <1>9, <1>14
  <2> QED BY <1>12, <2>1, <2>3, <2>4
<1>15. ASSUME p = 2
       PROVE  /\ e.bits = 2 * ((k + 1) % 3) /\ Len(w) = 2
              /\ w[1] = T[4 * t + p + 1] /\ w[2] = T[4 * t + p + 2]
  <2>0. k = 3 * t + 2 /\ k + 1 = 3 * t + 3 /\ k > 0 /\ (k + 1) % 3 = 0
        /\ 4 * t + p + 2 = 4 * t + 4 /\ 3 * t + 3 <= Len(s) /\ 3 * t + 2 <= Len(s)
    BY <1>1, <1>3, <1>15
  <2>1. /\ s[k + 1] = C /\ (k + 1) % 3 = 0 /\ f[k].bits = 4
        /\ s[k] = B /\ k > 0 /\ 4 * t + p + 2 = 4 * t + 4
    BY <1>6, <1>10, <1>15, <2>0 DEF ByteAt
  <2>2. f[k].acc % 256 = B
    BY <1>6, <2>1
  <2>3. /\ e.bits = 0 /\ Len(w) = 2 /\ w[1] = Alphabet[4 * (B % 16) + (C \div 64)]
        /\ w[2] = Alphabet[C % 64]
    BY <1>5, <2>1, <2>2 DEF Adds
  <2>4. T[4 * t + p + 1] = LetterAt(s, t, 2) /\ T[4 * t + p + 2] = LetterAt(s, t, 3)
    BY <1>9, <1>15, <2>1
  <2> QED BY <1>12, <2>1, <2>3, <2>4
<1>16. e.bits = 2 * ((k + 1) % 3)
  BY <1>3, <1>13, <1>14, <1>15
<1>17. (8 * (k + 1)) \div 6 = 4 * t + p + Len(w)
  <2>1. p = 0 \/ p = 1 \/ p = 2
    BY <1>3
  <2>2. CASE p = 0
    <3>1. k + 1 = 3 * t + 1 /\ Len(w) = 1
      BY <1>3, <1>13, <2>2
    <3>2. (8 * (3 * t + 1)) \div 6 = 4 * t + 1 /\ 4 * t + 0 + 1 = 4 * t + 1
      BY <1>3
    <3> QED BY <2>2, <3>1, <3>2
  <2>3. CASE p = 1
    <3>1. k + 1 = 3 * t + 2 /\ Len(w) = 1
      BY <1>3, <1>14, <2>3
    <3>2. (8 * (3 * t + 2)) \div 6 = 4 * t + 2 /\ 4 * t + 1 + 1 = 4 * t + 2
      BY <1>3
    <3> QED BY <2>3, <3>1, <3>2
  <2>4. CASE p = 2
    <3>1. k + 1 = 3 * t + 3 /\ Len(w) = 2
      BY <1>3, <1>15, <2>4
    <3>2. (8 * (3 * t + 3)) \div 6 = 4 * t + 4 /\ 4 * t + 2 + 2 = 4 * t + 4
      BY <1>3
    <3> QED BY <2>4, <3>1, <3>2
  <2> QED BY <2>1, <2>2, <2>3, <2>4
<1>18. \A i \in 1 .. Len(w) : w[i] = T[4 * t + p + i]
  <2> SUFFICES ASSUME NEW i \in 1 .. Len(w) PROVE w[i] = T[4 * t + p + i]
    OBVIOUS
  <2>1. /\ w[1] = T[4 * t + p + 1] /\ (Len(w) = 1 \/ Len(w) = 2)
        /\ Len(w) = 2 => w[2] = T[4 * t + p + 2]
    <3>1. p = 0 \/ p = 1 \/ p = 2
      BY <1>3
    <3>2. CASE p = 0
      BY <1>13, <3>2
    <3>3. CASE p = 1
      BY <1>14, <3>3
    <3>4. CASE p = 2
      BY <1>15, <3>4
    <3> QED BY <3>1, <3>2, <3>3, <3>4
  <2>2. i = 1 \/ (i = 2 /\ Len(w) = 2)
    <3>1. Len(w) = 1 \/ Len(w) = 2
      BY <2>1, Zenon
    <3>2. CASE Len(w) = 1
      <4>1. i \in 1 .. 1
        BY <3>2, Zenon
      <4> QED BY <4>1
    <3>3. CASE Len(w) = 2
      <4>1. i \in 1 .. 2
        BY <3>3, Zenon
      <4> QED BY <3>3, <4>1
    <3> QED BY <3>1, <3>2, <3>3
  <2> QED BY <2>1, <2>2
<1>19. Extended(f[k].out \o w, done, T, 4 * t + p + Len(w))
  <2>1. 4 * t + p \in Nat
    BY <1>3
  <2> QED BY <1>6, <1>7, <1>18, <2>1, ExtendsMore
<1>20. k + 1 > 0
  BY <1>1
<1> QED BY <1>4, <1>7, <1>16, <1>17, <1>19, <1>20 DEF ScalarState

\* The loop ends with every byte.
LEMMA ScalarLoop ==
  ASSUME NEW done \in Seq(Byte), NEW s \in Seq(Byte)
  PROVE  LET first == [bits |-> 0, acc |-> 0, out |-> done]
             F(f) == [k \in 0 .. Len(s) |-> IF k = 0 THEN first ELSE EncodeByte(f[k - 1], s[k])]
         IN ScalarState(CHOOSE f : f = F(f), done, s, Len(s))
<1> DEFINE first == [bits |-> 0, acc |-> 0, out |-> done]
           m == Len(s)
           F(f) == [k \in 0 .. m |-> IF k = 0 THEN first ELSE EncodeByte(f[k - 1], s[k])]
           after == CHOOSE f : f = F(f)
           X == EncodeStates
           step == [x \in (1 .. m) \X X |-> EncodeByte(x[2], s[x[1]])]
<1>1. m \in Nat /\ \A k \in 1 .. m : s[k] \in Byte
  OBVIOUS
<1>2. first \in X
  <2>1. Short(0) /\ 0 \in Nat
    BY DEF Short
  <2> QED BY <2>1 DEF EncodeStates
<1>3. step \in [(1 .. m) \X X -> X]
  <2>1. ASSUME NEW x \in (1 .. m) \X X PROVE EncodeByte(x[2], s[x[1]]) \in X
    <3>1. x[2] \in EncodeStates /\ s[x[1]] \in Byte
      BY <1>1
    <3>2. PICK w, e : Adds(x[2], s[x[1]], w, e)
      BY <3>1, EncodesByte
    <3> QED BY <3>2 DEF Adds
  <2> QED BY <2>1
<1> HIDE DEF m, first
<1>4. PICK g : Iterates(g, m, X, first, step)
  <2> HIDE DEF step, X
  <2> QED BY <1>1, <1>2, <1>3, IterationExists
<1>5. g = F(g)
  <2>1. ASSUME NEW k \in 0 .. m PROVE g[k] = IF k = 0 THEN first ELSE EncodeByte(g[k - 1], s[k])
    <3>1. CASE k = 0
      BY <1>4, <3>1 DEF Iterates
    <3>2. CASE k # 0
      <4>1. k \in 1 .. m /\ k - 1 \in 0 .. m
        BY <1>1, <3>2
      <4>2. g[k - 1] \in X /\ g[k] = step[<<k, g[k - 1]>>]
        <5> HIDE DEF step, X
        <5> QED BY <1>4, <4>1 DEF Iterates
      <4>3. <<k, g[k - 1]>> \in (1 .. m) \X X
        BY <4>1, <4>2
      <4>4. step[<<k, g[k - 1]>>] = EncodeByte(g[k - 1], s[k])
        BY <4>3
      <4> QED BY <3>2, <4>2, <4>4
    <3> QED BY <3>1, <3>2
  <2>2. g = [k \in 0 .. m |-> g[k]]
    <3> HIDE DEF step, X
    <3> QED BY <1>4 DEF Iterates
  <2> QED BY <2>1, <2>2, Zenon
<1>6. after = F(after)
  <2> HIDE DEF F
  <2> QED BY <1>5
<1> HIDE DEF after
<1>7. after[0] = first /\ \A k \in 0 .. m - 1 : after[k + 1] = EncodeByte(after[k], s[k + 1])
  <2>1. \A k \in 0 .. m : after[k] = IF k = 0 THEN first ELSE EncodeByte(after[k - 1], s[k])
    BY <1>6
  <2>2. ASSUME NEW k \in 0 .. m - 1 PROVE after[k + 1] = EncodeByte(after[k], s[k + 1])
    <3>1. k + 1 \in 0 .. m /\ k + 1 # 0 /\ k + 1 - 1 = k
      BY <1>1
    <3> QED BY <2>1, <3>1
  <2>3. 0 \in 0 .. m
    BY <1>1
  <2> QED BY <2>1, <2>2, <2>3
<1> DEFINE S == {k \in 0 .. m : ScalarState(after, done, s, k)}
<1>8. 0 \in S
  <2>1. /\ 0 \in 0 .. m /\ 0 % 3 = 0 /\ (8 * 0) \div 6 = 0 /\ 2 * 0 = 0 /\ ~(0 > 0)
    BY <1>1
  <2>2. after[0] \in EncodeStates /\ after[0].bits = 0 /\ after[0].out = done
    BY <1>2, <1>7 DEF first
  <2>3. Extended(done, done, ReferenceEncode(s), 0)
    <3>1. IsSeq(done) /\ Len(done) = Len(done) + 0 /\ 1 .. 0 = {}
      BY DEF IsSeq
    <3> QED BY <3>1 DEF Extended
  <2> QED BY <2>1, <2>2, <2>3 DEF ScalarState
<1>9. ASSUME NEW k \in 0 .. m - 1, k \in S PROVE k + 1 \in S
  <2>1. IsSeq(done)
    BY DEF IsSeq
  <2>2. ScalarState(after, done, s, k) /\ k \in 0 .. Len(s) - 1 /\ k + 1 \in 0 .. m
    BY <1>1, <1>9 DEF m
  <2>3. after[k + 1] = EncodeByte(after[k], s[k + 1])
    BY <1>7
  <2>4. ScalarState(after, done, s, k + 1)
    BY <2>1, <2>2, <2>3, ScalarStep
  <2> QED BY <2>2, <2>4
<1>10. m \in S
  <2> HIDE DEF S
  <2>1. 0 .. m \subseteq S
    BY <1>1, <1>8, <1>9, BoundedInduction
  <2>2. m \in 0 .. m
    BY <1>1
  <2> QED BY <2>1, <2>2
<1>11. ScalarState(after, done, s, m)
  BY <1>10
<1> QED BY <1>11 DEF after, m, first

\* The letter that holds the last bits, with zeros after them.
LEMMA ScalarLast ==
  ASSUME NEW s \in Seq(Byte), NEW t \in Nat, NEW acc \in Nat
  PROVE  /\ Len(s) = 3 * t + 1 /\ acc % 256 = s[Len(s)] =>
              CharOf[ShiftLeft(acc, 4) & \h3F] = LetterAt(s, t, 1)
         /\ Len(s) = 3 * t + 2 /\ acc % 256 = s[Len(s)] =>
              CharOf[ShiftLeft(acc, 2) & \h3F] = LetterAt(s, t, 2)
<1>1. PICK A, B, C : /\ A = ByteAt(s, 3 * t + 1) /\ B = ByteAt(s, 3 * t + 2)
                     /\ C = ByteAt(s, 3 * t + 3)
  OBVIOUS
<1>2. A \in Byte /\ B \in Byte /\ C \in Byte
  <2>1. 3 * t + 1 \in Nat \ {0} /\ 3 * t + 2 \in Nat \ {0} /\ 3 * t + 3 \in Nat \ {0}
    OBVIOUS
  <2> QED BY <1>1, <2>1, BytesAt
<1>3. /\ LetterAt(s, t, 1) = Alphabet[16 * (A % 4) + (B \div 16)]
      /\ LetterAt(s, t, 2) = Alphabet[4 * (B % 16) + (C \div 64)]
  BY <1>1, <1>2, SextetsAre DEF LetterAt, SextetAt
<1>4. /\ ShiftLeft(acc, 4) \in Nat /\ Short(ShiftLeft(acc, 4))
      /\ ShiftLeft(acc, 4) % 64 = 16 * ((acc % 256) % 4)
  <2>1. ShiftLeft(acc, 4) = (acc * 16) % 65536
    BY DEF ShiftLeft, Word16
  <2>2. (acc * 16) % 65536 \in Nat /\ (acc * 16) % 65536 < 65536
    OBVIOUS
  <2>3. ((acc * 16) % 65536) % 64 = 16 * ((acc % 256) % 4)
    OBVIOUS
  <2> QED BY <2>1, <2>2, <2>3 DEF Short
<1>5. /\ ShiftLeft(acc, 2) \in Nat /\ Short(ShiftLeft(acc, 2))
      /\ ShiftLeft(acc, 2) % 64 = 4 * ((acc % 256) % 16)
  <2>1. ShiftLeft(acc, 2) = (acc * 4) % 65536
    BY DEF ShiftLeft, Word16
  <2>2. (acc * 4) % 65536 \in Nat /\ (acc * 4) % 65536 < 65536
    OBVIOUS
  <2>3. ((acc * 4) % 65536) % 64 = 4 * ((acc % 256) % 16)
    OBVIOUS
  <2> QED BY <2>1, <2>2, <2>3 DEF Short
<1>6. ASSUME Len(s) = 3 * t + 1, acc % 256 = s[Len(s)]
      PROVE  CharOf[ShiftLeft(acc, 4) & \h3F] = LetterAt(s, t, 1)
  <2>1. acc % 256 = A /\ B = 0
    BY <1>1, <1>6 DEF ByteAt
  <2>2. 16 * (A % 4) + (B \div 16) = 16 * (A % 4)
    BY <1>2, <2>1 DEF Byte
  <2>3. CharOf[ShiftLeft(acc, 4) & \h3F] = Alphabet[16 * (A % 4)]
    BY <1>4, <2>1, LetterIs
  <2> QED BY <1>3, <2>2, <2>3
<1>7. ASSUME Len(s) = 3 * t + 2, acc % 256 = s[Len(s)]
      PROVE  CharOf[ShiftLeft(acc, 2) & \h3F] = LetterAt(s, t, 2)
  <2>1. acc % 256 = B /\ C = 0
    BY <1>1, <1>7 DEF ByteAt
  <2>2. 4 * (B % 16) + (C \div 64) = 4 * (B % 16)
    BY <1>2, <2>1 DEF Byte
  <2>3. CharOf[ShiftLeft(acc, 2) & \h3F] = Alphabet[4 * (B % 16)]
    BY <1>5, <2>1, LetterIs
  <2> QED BY <1>3, <2>2, <2>3
<1> QED BY <1>6, <1>7

\* The scalar loop adds the text of what is left to what the blocks have written.
LEMMA ScalarText ==
  ASSUME NEW done \in Seq(Byte), NEW s \in Seq(Byte)
  PROVE  Extended(EncodeScalar(done, s), done, ReferenceEncode(s), B64Len(Len(s)))
<1> DEFINE first == [bits |-> 0, acc |-> 0, out |-> done]
           F(f) == [k \in 0 .. Len(s) |-> IF k = 0 THEN first ELSE EncodeByte(f[k - 1], s[k])]
           after == CHOOSE f : f = F(f)
           q == after[Len(s)]
<1>1. EncodeScalar(done, s) = IF q.bits > 0
                              THEN Append(q.out, CharOf[ShiftLeft(q.acc, 6 - q.bits) & \h3F])
                              ELSE q.out
  BY DEF EncodeScalar
<1>2. ScalarState(after, done, s, Len(s))
  BY ScalarLoop
<1> HIDE DEF after
<1>3. PICK t, p, T : t = Len(s) \div 3 /\ p = Len(s) % 3 /\ T = ReferenceEncode(s)
  OBVIOUS
<1>4. /\ t \in Nat /\ p \in 0 .. 2 /\ Len(s) = 3 * t + p /\ (8 * Len(s)) \div 6 = 4 * t + p
      /\ B64Len(Len(s)) = 4 * t + (IF p = 0 THEN 0 ELSE p + 1) /\ B64Len(Len(s)) \in Nat
  <2>1. Len(s) \in Nat
    OBVIOUS
  <2> QED BY <1>3, <2>1, InThrees
<1>5. /\ q \in EncodeStates /\ q.bits = 2 * p /\ (Len(s) > 0 => q.acc % 256 = s[Len(s)])
      /\ Extended(q.out, done, T, 4 * t + p)
  BY <1>2, <1>3, <1>4 DEF ScalarState
<1> HIDE DEF q
<1>6. q.acc \in Nat /\ q.out \in Seq(Byte)
  BY <1>5 DEF EncodeStates
<1> DEFINE text == EncodeScalar(done, s)
<1>7. ASSUME p = 0 PROVE Extended(text, done, T, B64Len(Len(s)))
  <2>1. text = q.out /\ B64Len(Len(s)) = 4 * t + p
    BY <1>1, <1>4, <1>5, <1>7
  <2> QED BY <1>5, <2>1
<1>8. ASSUME NEW c, p > 0, c = LetterAt(s, t, p), text = Append(q.out, c)
      PROVE  Extended(text, done, T, B64Len(Len(s)))
  <2>1. 4 * t + p + 1 \in 1 .. B64Len(Len(s)) /\ p \in 0 .. 3 /\ B64Len(Len(s)) = 4 * t + p + 1
    <3>0. p > 0
      BY <1>8
    <3>1. p # 0
      BY <1>4, <3>0
    <3>2. B64Len(Len(s)) = 4 * t + (p + 1)
      BY <1>4, <3>1, Zenon
    <3>3. t \in Nat /\ p \in 0 .. 2
      BY <1>4
    <3> HIDE DEF text
    <3> QED BY <3>0, <3>2, <3>3
  <2>2. T[4 * t + p + 1] = c
    BY <1>3, <1>4, <1>8, <2>1, ReferenceText
  <2>3. PICK w : w = <<c>>
    OBVIOUS
  <2>4. IsSeq(w) /\ Len(w) = 1 /\ w[1] = c
    <3>1. w \in Seq({c})
      BY <2>3
    <3> QED BY <2>3, <3>1 DEF IsSeq
  <2>5. \A i \in 1 .. Len(w) : w[i] = T[4 * t + p + i]
    <3>1. \A i \in 1 .. 1 : w[i] = T[4 * t + p + i]
      BY <2>2, <2>4
    <3> QED BY <2>4, <3>1
  <2>6. Extended(q.out \o w, done, T, 4 * t + p + Len(w))
    <3>1. 4 * t + p \in Nat /\ IsSeq(done)
      BY <1>4 DEF IsSeq
    <3> QED BY <1>5, <2>4, <2>5, <3>1, ExtendsMore
  <2>7. Append(q.out, c) = q.out \o w
    <3>1. q.out \in Seq(Byte \cup {c}) /\ c \in Byte \cup {c}
      BY <1>6
    <3> QED BY <2>3, <3>1, AppendIsConcat
  <2> HIDE DEF text
  <2> QED BY <1>8, <2>1, <2>4, <2>6, <2>7
<1>9. p = 0 \/ p = 1 \/ p = 2
  BY <1>4
<1>10. CASE p = 1
  <2>1. q.bits = 2 /\ 6 - q.bits = 4 /\ Len(s) = 3 * t + 1 /\ Len(s) > 0
    BY <1>4, <1>5, <1>10
  <2>2. text = Append(q.out, CharOf[ShiftLeft(q.acc, 4) & \h3F])
    BY <1>1, <2>1
  <2>3. CharOf[ShiftLeft(q.acc, 4) & \h3F] = LetterAt(s, t, 1)
    BY <1>4, <1>5, <1>6, <2>1, ScalarLast
  <2> HIDE DEF text
  <2>4. p > 0 /\ text = Append(q.out, LetterAt(s, t, p))
    BY <1>10, <2>2, <2>3
  <2> QED BY <1>3, <1>8, <2>4 DEF text
<1>11. CASE p = 2
  <2>1. q.bits = 4 /\ 6 - q.bits = 2 /\ Len(s) = 3 * t + 2 /\ Len(s) > 0
    BY <1>4, <1>5, <1>11
  <2>2. text = Append(q.out, CharOf[ShiftLeft(q.acc, 2) & \h3F])
    BY <1>1, <2>1
  <2>3. CharOf[ShiftLeft(q.acc, 2) & \h3F] = LetterAt(s, t, 2)
    BY <1>4, <1>5, <1>6, <2>1, ScalarLast
  <2> HIDE DEF text
  <2>4. p > 0 /\ text = Append(q.out, LetterAt(s, t, p))
    BY <1>11, <2>2, <2>3
  <2> QED BY <1>3, <1>8, <2>4 DEF text
<1> QED BY <1>3, <1>7, <1>9, <1>10, <1>11

-----------------------------------------------------------------------------
(* Every backend writes the text of RFC 4648                                 *)

\* Letter by letter, four for three bytes.
Spells(w, s, k, n) ==
  \A j \in 0 .. n - 1, r \in 0 .. 3 : w[4 * j + r + 1] = LetterAt(s, k + j, r)

\* What a block writes is the text of the bytes it is the block of.
BlockWrites(w, n, k) ==
  /\ out' = out \o w /\ consumed' = 3 * (k + n) /\ 3 * (k + n) <= Len(src)
  /\ IsSeq(w) /\ Len(w) = 4 * n /\ Spells(w, src, k, n)
  /\ UNCHANGED <<coding, src, dstLen, result>> /\ coding = "encode" /\ result = Pending

\* A block goes on with the text of src.
LEMMA BlockSpells ==
  ASSUME CodecInv, src \in Seq(Byte), EncodeStep, NEW k \in Nat, consumed = 3 * k
  PROVE  \E w : \E n \in {4, 8} : BlockWrites(w, n, k)
<1> DEFINE reads == IF backend = "neon" THEN 24 ELSE Loops[loop].chars
           bytes == Loops[loop].bytes
           x == Load(reads)
           w == EncodeBlock(x)
           n == IF bytes = 24 THEN 8 ELSE 4
<1>1. /\ coding = "encode" /\ result = Pending /\ loop \in 1 .. Len(Loops)
      /\ Len(src) - consumed >= Loops[loop].load
      /\ out' = out \o w /\ consumed' = consumed + bytes
      /\ UNCHANGED <<coding, src, dstLen, result>>
  BY DEF EncodeStep, InLoop, BlockFits
<1>2. \/ /\ reads = 24 /\ bytes = 24 /\ Loops[loop].load = 24 /\ backend = "neon"
      \/ /\ reads = 16 /\ bytes = 12 /\ Loops[loop].load = 16 /\ backend # "neon"
      \/ /\ reads = 32 /\ bytes = 24 /\ Loops[loop].load = 32 /\ backend = "avx2"
  BY <1>1, LoopsAre, SMTT(30) DEF CodecInv, LoopNow, Wide, Narrow
<1>3. n \in {4, 8} /\ bytes = 3 * n /\ reads \in Nat /\ bytes <= reads
      /\ Loops[loop].load = reads
  BY <1>2
<1>4. Len(src) \in Nat /\ 3 * k + reads <= Len(src)
  <2>1. Len(src) \in Nat
    OBVIOUS
  <2>2. Len(src) - 3 * k >= reads
    BY <1>1, <1>3
  <2> QED BY <1>3, <2>1, <2>2
<1>5. Len(x) = reads
  <2> HIDE DEF reads
  <2>1. Measures(Load(reads), reads)
    BY <1>3, LoadMeasures
  <2> QED BY <2>1 DEF Measures
<1>6. \A i \in 1 .. reads : x[i] = src[3 * k + i] /\ x[i] \in Byte
  <2> HIDE DEF reads
  <2> SUFFICES ASSUME NEW i \in 1 .. reads PROVE x[i] = src[3 * k + i] /\ x[i] \in Byte
    OBVIOUS
  <2>1. 3 * k + i \in 1 .. Len(src)
    BY <1>3, <1>4
  <2>2. x[i] = IF consumed + i <= Len(src) THEN src[consumed + i] ELSE 0
    BY DEF Load
  <2>3. x[i] = src[3 * k + i]
    BY <2>1, <2>2
  <2>4. src[3 * k + i] \in Byte
    BY <2>1
  <2> QED BY <2>3, <2>4
<1>7. /\ backend = "neon" => w = NeonEncode(x)
      /\ backend = "wasm128" => w = WasmEncodeValues(SplitBits(x))
      /\ backend \notin {"neon", "wasm128"} /\ Len(x) = 32 => w = EncodeBlock24(x)
      /\ backend \notin {"neon", "wasm128"} /\ Len(x) # 32 => w = EncodeBlock12(x)
  <2> HIDE DEF x, reads, bytes
  <2> QED BY <1>2, <1>5 DEF EncodeBlock
<1> HIDE DEF x, w
<1>8. Measures(w, 4 * n) /\ BlockText(w, x, n)
  <2>1. CASE reads = 24 /\ bytes = 24 /\ backend = "neon"
    <3>1. w = NeonEncode(x) /\ n = 8 /\ 4 * n = 32
      BY <1>7, <2>1
    <3>2. \A i \in 1 .. 24 : x[i] \in Byte
      BY <1>6, <2>1
    <3>3. BlockText(NeonEncode(x), x, 8)
      BY <1>5, <2>1, <3>2, NeonText
    <3>4. Measures(NeonEncode(x), 32)
      BY EncodedMeasures
    <3> HIDE DEF n, bytes, reads
    <3> QED BY <3>1, <3>3, <3>4
  <2>2. CASE reads = 16 /\ bytes = 12 /\ backend # "neon"
    <3>1. n = 4 /\ 4 * n = 16
      BY <2>2
    <3>2. w = WasmEncodeValues(SplitBits(x)) \/ w = EncodeBlock12(x)
      BY <1>5, <1>7, <2>2
    <3>3. \A i \in 1 .. 12 : x[i] \in Byte
      BY <1>6, <2>2
    <3>4. BlockText(w, x, 4)
      BY <3>2, <3>3, NarrowText
    <3>5. Measures(w, 16)
      BY <3>2, EncodedMeasures
    <3> HIDE DEF n, bytes, reads
    <3> QED BY <3>1, <3>4, <3>5
  <2>3. CASE reads = 32 /\ bytes = 24 /\ backend = "avx2"
    <3>1. w = EncodeBlock24(x) /\ n = 8 /\ 4 * n = 32
      BY <1>5, <1>7, <2>3
    <3>2. \A i \in 1 .. 24 : x[i] \in Byte
      BY <1>6, <2>3, SMTT(40)
    <3>3. BlockText(EncodeBlock24(x), x, 8)
      BY <3>2, WideText
    <3>4. Measures(EncodeBlock24(x), 32)
      BY EncodedMeasures
    <3> HIDE DEF n, bytes, reads
    <3> QED BY <3>1, <3>3, <3>4
  <2> QED BY <1>2, <2>1, <2>2, <2>3
<1> HIDE DEF n, bytes, reads
<1>9. 3 * (k + n) <= Len(src) /\ consumed' = 3 * (k + n)
  BY <1>1, <1>3, <1>4
<1>10. Spells(w, src, k, n)
  <2> SUFFICES ASSUME NEW j \in 0 .. n - 1, NEW r \in 0 .. 3
               PROVE  w[4 * j + r + 1] = LetterAt(src, k + j, r)
    BY DEF Spells
  <2>1. w[4 * j + r + 1] = Alphabet[SextetOf(x[3 * j + 1], x[3 * j + 2], x[3 * j + 3], r)]
    BY <1>8 DEF BlockText
  <2>2. /\ 3 * j + 1 \in 1 .. reads /\ 3 * j + 2 \in 1 .. reads /\ 3 * j + 3 \in 1 .. reads
        /\ 3 * k + (3 * j + 1) = 3 * (k + j) + 1 /\ 3 * k + (3 * j + 2) = 3 * (k + j) + 2
        /\ 3 * k + (3 * j + 3) = 3 * (k + j) + 3 /\ 3 * (k + j) + 3 <= Len(src)
    BY <1>3, <1>4
  <2>3. /\ x[3 * j + 1] = src[3 * (k + j) + 1] /\ x[3 * j + 2] = src[3 * (k + j) + 2]
        /\ x[3 * j + 3] = src[3 * (k + j) + 3]
    BY <1>6, <2>2
  <2>4. /\ ByteAt(src, 3 * (k + j) + 1) = src[3 * (k + j) + 1]
        /\ ByteAt(src, 3 * (k + j) + 2) = src[3 * (k + j) + 2]
        /\ ByteAt(src, 3 * (k + j) + 3) = src[3 * (k + j) + 3]
    <3>1. 3 * (k + j) + 1 <= Len(src) /\ 3 * (k + j) + 2 <= Len(src) /\ 3 * (k + j) + 3 <= Len(src)
      BY <1>3, <1>4, <2>2
    <3> QED BY <3>1 DEF ByteAt
  <2> QED BY <2>1, <2>3, <2>4, Zenon DEF LetterAt, SextetAt
<1>11. IsSeq(w) /\ Len(w) = 4 * n
  BY <1>8 DEF Measures
<1>12. BlockWrites(w, n, k)
  BY <1>1, <1>9, <1>10, <1>11 DEF BlockWrites
<1> QED BY <1>3, <1>12

\* The text of src so far, and the whole of it at the end.
TextInv ==
  /\ CodecInv /\ src \in Seq(Byte)
  /\ coding = "encode" =>
       /\ \E k \in Nat : consumed = 3 * k /\ Extended(out, <<>>, ReferenceEncode(src), 4 * k)
       /\ result # Pending =>
            result = IF dstLen > B64Len(Len(src)) THEN Ok(ReferenceEncode(src), Len(src)) ELSE Err

\* Nothing is a text of no letters.
LEMMA EmptyText == IsSeq(<<>>) /\ Len(<<>>) = 0
<1>1. <<>> \in Seq({0})
  OBVIOUS
<1> QED BY <1>1 DEF IsSeq

\* A block step keeps the text that of src.
LEMMA TextGrows ==
  ASSUME TextInv, EncodeStep
  PROVE  /\ \E k \in Nat : consumed' = 3 * k /\ Extended(out', <<>>, ReferenceEncode(src'), 4 * k)
         /\ src' = src /\ coding' = coding /\ result' = Pending
<1>1. CodecInv /\ src \in Seq(Byte)
  BY DEF TextInv
<1>2. coding = "encode"
  BY DEF EncodeStep
<1>3. PICK k \in Nat : consumed = 3 * k /\ Extended(out, <<>>, ReferenceEncode(src), 4 * k)
  BY <1>2 DEF TextInv
<1>4. PICK w : \E n \in {4, 8} : BlockWrites(w, n, k)
  BY <1>1, <1>3, BlockSpells
<1>5. PICK n \in {4, 8} : BlockWrites(w, n, k)
  BY <1>4
<1>6. PICK T : T = ReferenceEncode(src)
  OBVIOUS
<1>7. /\ out' = out \o w /\ consumed' = 3 * (k + n) /\ 3 * (k + n) <= Len(src)
      /\ IsSeq(w) /\ Len(w) = 4 * n /\ Spells(w, src, k, n)
      /\ src' = src /\ coding' = coding /\ result' = Pending
  BY <1>5 DEF BlockWrites
<1>8. k + n \in Nat /\ 4 * k \in Nat /\ 4 * k + 4 * n = 4 * (k + n)
  OBVIOUS
<1>9. 4 * (k + n) <= B64Len(Len(src)) /\ B64Len(Len(src)) \in Nat
  <2>1. Len(src) \in Nat
    BY <1>1
  <2> QED BY <1>1, <1>7, <1>8, <2>1, WholeTriples, ReferenceText
<1>10. \A i \in 1 .. Len(w) : w[i] = T[4 * k + i]
  <2> SUFFICES ASSUME NEW i \in 1 .. 4 * n PROVE w[i] = T[4 * k + i]
    BY <1>7
  <2>1. PICK j, r : j = (i - 1) \div 4 /\ r = (i - 1) % 4
    OBVIOUS
  <2>2. j \in 0 .. n - 1 /\ r \in 0 .. 3 /\ i = 4 * j + r + 1
    BY <2>1
  <2>3. w[i] = LetterAt(src, k + j, r)
    BY <1>7, <2>2 DEF Spells
  <2>4. /\ k + j \in Nat /\ 4 * (k + j) + r + 1 = 4 * k + i
        /\ 4 * (k + j) + r + 1 \in 1 .. B64Len(Len(src))
    BY <1>9, <2>2
  <2>5. ReferenceEncode(src)[4 * (k + j) + r + 1] = LetterAt(src, k + j, r)
    BY <1>1, <2>2, <2>4, ReferenceText
  <2> QED BY <1>6, <2>3, <2>4, <2>5, Zenon
<1>11. Extended(out \o w, <<>>, T, 4 * k + Len(w))
  BY <1>3, <1>6, <1>7, <1>8, <1>10, EmptyText, ExtendsMore
<1>12. Extended(out', <<>>, ReferenceEncode(src'), 4 * (k + n))
  BY <1>6, <1>7, <1>8, <1>11, Zenon
<1> QED BY <1>7, <1>8, <1>12

\* What the blocks leave.
LEMMA RestAre ==
  ASSUME src \in Seq(Byte), NEW c \in Nat, consumed = c, c <= Len(src)
  PROVE  /\ Rest \in Seq(Byte) /\ Len(Rest) = Len(src) - c
         /\ \A i \in 1 .. Len(src) - c : Rest[i] = src[c + i]
<1>1. Len(src) \in Nat
  OBVIOUS
<1>2. PICK m, n : m = c + 1 /\ n = Len(src)
  OBVIOUS
<1>3. /\ m \in Int /\ n \in Int /\ n - m + 1 = n - c
      /\ (IF m <= n THEN n - m + 1 ELSE 0) = n - c
  BY <1>1, <1>2
<1>4. \A i \in m .. n : src[i] \in Byte
  <2>1. m .. n \subseteq 1 .. Len(src)
    BY <1>1, <1>2
  <2> QED BY <2>1
<1>5. Rest = SubSeq(src, m, n)
  BY <1>2 DEF Rest
<1>6. /\ SubSeq(src, m, n) \in Seq(Byte)
      /\ Len(SubSeq(src, m, n)) = IF m <= n THEN n - m + 1 ELSE 0
      /\ \A i \in 1 .. n - m + 1 : SubSeq(src, m, n)[i] = src[m + i - 1]
  BY <1>3, <1>4, SubSeqProperties
<1>7. \A i \in 1 .. n - m + 1 : m + i - 1 = c + i
  BY <1>2, <1>3
<1> QED BY <1>2, <1>3, <1>5, <1>6, <1>7

\* What is left, after k triples.
LEMMA RestIs ==
  ASSUME src \in Seq(Byte), NEW k \in Nat, consumed = 3 * k, 3 * k <= Len(src)
  PROVE  /\ Rest \in Seq(Byte) /\ Len(Rest) = Len(src) - 3 * k
         /\ \A t \in Nat, r \in 0 .. 3 : LetterAt(Rest, t, r) = LetterAt(src, k + t, r)
<1>1. Len(src) \in Nat /\ 3 * k + 1 \in Nat
  OBVIOUS
<1>2. /\ Rest \in Seq(Byte) /\ Len(Rest) = Len(src) - 3 * k
      /\ \A i \in 1 .. Len(src) - 3 * k : Rest[i] = src[3 * k + i]
  <2>1. PICK c : c = 3 * k
    OBVIOUS
  <2>2. /\ Rest \in Seq(Byte) /\ Len(Rest) = Len(src) - c
        /\ \A i \in 1 .. Len(src) - c : Rest[i] = src[c + i]
    BY <1>1, <2>1, RestAre
  <2> QED BY <2>1, <2>2
<1>3. ASSUME NEW i \in Nat \ {0}, NEW j, j = 3 * k + i PROVE ByteAt(Rest, i) = ByteAt(src, j)
  <2>1. i <= Len(Rest) <=> j <= Len(src)
    BY <1>1, <1>2, <1>3
  <2>2. i <= Len(Rest) => Rest[i] = src[j]
    BY <1>1, <1>2, <1>3
  <2> QED BY <2>1, <2>2 DEF ByteAt
<1>4. ASSUME NEW t \in Nat, NEW r \in 0 .. 3
      PROVE  LetterAt(Rest, t, r) = LetterAt(src, k + t, r)
  <2>1. /\ 3 * t + 1 \in Nat \ {0} /\ 3 * t + 2 \in Nat \ {0} /\ 3 * t + 3 \in Nat \ {0}
        /\ 3 * (k + t) + 1 = 3 * k + (3 * t + 1) /\ 3 * (k + t) + 2 = 3 * k + (3 * t + 2)
        /\ 3 * (k + t) + 3 = 3 * k + (3 * t + 3)
    OBVIOUS
  <2>2. /\ ByteAt(Rest, 3 * t + 1) = ByteAt(src, 3 * (k + t) + 1)
        /\ ByteAt(Rest, 3 * t + 2) = ByteAt(src, 3 * (k + t) + 2)
        /\ ByteAt(Rest, 3 * t + 3) = ByteAt(src, 3 * (k + t) + 3)
    BY <1>3, <2>1
  <2> QED BY <2>2, Zenon DEF LetterAt, SextetAt
<1> QED BY <1>2, <1>4

\* The letters of a sequence determine it.
LEMMA SameText ==
  ASSUME NEW s, NEW t, IsSeq(s), IsSeq(t), Len(s) = Len(t),
         \A i \in 1 .. Len(t) : s[i] = t[i]
  PROVE  s = t
<1>1. PICK S : s \in Seq(S)
  BY DEF IsSeq
<1>2. PICK T : t \in Seq(T)
  BY DEF IsSeq
<1>3. s \in Seq(S \cup T) /\ t \in Seq(S \cup T)
  BY <1>1, <1>2
<1> QED BY <1>3

\* Whole triples are written first, and the scalar loop writes the rest.
LEMMA TextEnds ==
  ASSUME TextInv, coding = "encode"
  PROVE  EncodeScalar(out, Rest) = ReferenceEncode(src)
<1>1. src \in Seq(Byte) /\ CodecInv
  BY DEF TextInv
<1>2. PICK k \in Nat : consumed = 3 * k /\ Extended(out, <<>>, ReferenceEncode(src), 4 * k)
  BY DEF TextInv
<1>3. Len(src) \in Nat /\ 3 * k <= Len(src)
  <2>1. Len(src) \in Nat /\ consumed <= Len(src)
    BY DEF CodecInv, TextInv
  <2> QED BY <1>2, <2>1
<1>4. PICK T, U, text : T = ReferenceEncode(src) /\ U = ReferenceEncode(Rest)
                        /\ text = EncodeScalar(out, Rest)
  OBVIOUS
<1>5. PICK n, m : n = B64Len(Len(src)) /\ m = B64Len(Len(Rest))
  OBVIOUS
<1>6. /\ Rest \in Seq(Byte) /\ Len(Rest) = Len(src) - 3 * k
      /\ \A t \in Nat, r \in 0 .. 3 : LetterAt(Rest, t, r) = LetterAt(src, k + t, r)
  BY <1>1, <1>2, <1>3, RestIs
<1>7. n \in Nat /\ m \in Nat /\ n = 4 * k + m
  <2>1. PICK q, r : q = Len(Rest) \div 3 /\ r = Len(Rest) % 3
    OBVIOUS
  <2>2. Len(Rest) \in Nat
    BY <1>6
  <2>3. /\ q \in Nat /\ r \in 0 .. 2 /\ Len(Rest) = 3 * q + r
        /\ m = 4 * q + (IF r = 0 THEN 0 ELSE r + 1) /\ m \in Nat
    BY <1>5, <2>1, <2>2, InThrees
  <2>4. PICK v, w : v = Len(src) \div 3 /\ w = Len(src) % 3
    OBVIOUS
  <2>5. /\ v \in Nat /\ w \in 0 .. 2 /\ Len(src) = 3 * v + w
        /\ n = 4 * v + (IF w = 0 THEN 0 ELSE w + 1) /\ n \in Nat
    BY <1>3, <1>5, <2>4, InThrees
  <2>6. 3 * v + w = 3 * (k + q) + r
    <3>1. PICK a, b : a = Len(Rest) /\ b = Len(src)
      OBVIOUS
    <3>2. a = 3 * q + r /\ q \in Nat /\ r \in Nat
      BY <2>3, <3>1
    <3>3. b = 3 * v + w /\ v \in Nat /\ w \in Nat
      BY <2>5, <3>1
    <3>4. a = b - 3 * k
      BY <1>6, <3>1
    <3> QED BY <3>2, <3>3, <3>4
  <2>7. v = k + q /\ w = r
    BY <2>3, <2>5, <2>6
  <2> QED BY <2>3, <2>5, <2>7
<1>8. Measures(T, n) /\ Measures(U, m)
  BY <1>1, <1>4, <1>5, <1>6, ReferenceText
<1>9. IsSeq(out) /\ Len(out) = 4 * k /\ \A i \in 1 .. 4 * k : out[i] = T[i]
  <2>1. Extended(out, <<>>, T, 4 * k)
    BY <1>2, <1>4
  <2>2. /\ Len(out) = Len(<<>>) + 4 * k /\ IsSeq(out)
        /\ \A i \in 1 .. 4 * k : out[Len(<<>>) + i] = T[i]
    BY <2>1 DEF Extended
  <2>3. ASSUME NEW i \in 1 .. 4 * k PROVE out[i] = T[i]
    <3>1. 0 + i = i /\ out[0 + i] = T[i]
      BY <2>2, EmptyText
    <3> QED BY <3>1
  <2> QED BY <2>2, <2>3, EmptyText
<1>10. ASSUME NEW i \in 1 .. m PROVE U[i] = T[4 * k + i]
  <2>1. PICK t, r : t = (i - 1) \div 4 /\ r = (i - 1) % 4
    OBVIOUS
  <2>2. t \in Nat /\ r \in 0 .. 3 /\ i = 4 * t + r + 1
    BY <1>7, <2>1
  <2>3. U[i] = LetterAt(Rest, t, r)
    BY <1>4, <1>5, <1>6, <2>2, ReferenceText
  <2>4. k + t \in Nat /\ 4 * (k + t) + r + 1 = 4 * k + i /\ 4 * (k + t) + r + 1 \in 1 .. n
    BY <1>7, <2>2
  <2>5. T[4 * (k + t) + r + 1] = LetterAt(src, k + t, r)
    BY <1>1, <1>4, <1>5, <2>2, <2>4, ReferenceText
  <2>6. LetterAt(Rest, t, r) = LetterAt(src, k + t, r)
    BY <1>6, <2>2
  <2> QED BY <2>3, <2>4, <2>5, <2>6, Zenon
<1>11. out \in Seq(Byte)
  <2>1. ASSUME NEW i \in 1 .. 4 * k PROVE out[i] \in Byte
    <3>1. PICK t, r : t = (i - 1) \div 4 /\ r = (i - 1) % 4
      OBVIOUS
    <3>2. t \in Nat /\ r \in 0 .. 3 /\ i = 4 * t + r + 1 /\ i \in 1 .. n
      BY <1>7, <3>1
    <3>3. T[i] = LetterAt(src, t, r)
      BY <1>1, <1>4, <1>5, <3>2, ReferenceText
    <3>4. SextetAt(src, t, r) \in 0 .. 63
      BY <1>1, <3>2, SextetAtIs
    <3>5. LetterAt(src, t, r) \in Byte
      BY <3>4, ScalarAlphabet DEF LetterAt
    <3> QED BY <1>9, <3>3, <3>5
  <2>2. PICK S : out \in Seq(S)
    BY <1>9 DEF IsSeq
  <2>3. 4 * k \in Nat /\ Len(out) = 4 * k
    BY <1>9
  <2>4. out \in [1 .. 4 * k -> Byte]
    <3>1. out = [i \in 1 .. 4 * k |-> out[i]]
      BY <2>2, <2>3
    <3> QED BY <2>1, <3>1
  <2> QED BY <2>3, <2>4
<1>12. Extended(text, out, U, m)
  BY <1>4, <1>5, <1>6, <1>11, ScalarText
<1>13. /\ IsSeq(text) /\ Len(text) = 4 * k + m
       /\ \A i \in 1 .. 4 * k : text[i] = out[i]
       /\ \A i \in 1 .. m : text[4 * k + i] = U[i]
  BY <1>9, <1>12 DEF Extended
<1>14. \A i \in 1 .. n : text[i] = T[i]
  <2> SUFFICES ASSUME NEW i \in 1 .. n PROVE text[i] = T[i]
    OBVIOUS
  <2>1. CASE i <= 4 * k
    <3>1. i \in 1 .. 4 * k
      BY <1>7, <2>1
    <3> QED BY <1>9, <1>13, <3>1
  <2>2. CASE ~(i <= 4 * k)
    <3>1. PICK j : j = i - 4 * k
      OBVIOUS
    <3>2. j \in 1 .. m /\ 4 * k + j = i
      BY <1>7, <2>2, <3>1
    <3>3. text[4 * k + j] = U[j] /\ U[j] = T[4 * k + j]
      BY <1>10, <1>13, <3>2
    <3> QED BY <3>2, <3>3
  <2> QED BY <2>1, <2>2
<1>15. IsSeq(T) /\ Len(T) = n /\ Len(text) = n
  BY <1>7, <1>8, <1>13 DEF Measures
<1>16. text = T
  BY <1>13, <1>14, <1>15, SameText
<1> QED BY <1>4, <1>16

\* There is no text at first.
LEMMA TextStarts == CodecInit => TextInv
<1> SUFFICES ASSUME CodecInit PROVE TextInv
  OBVIOUS
<1>1. CodecInv
  BY CodecStarts
<1>2. src \in Seq(Byte)
  <2>1. PICK p \in Plains \cup Texts : src = p.bytes
    BY DEF CodecInit
  <2>2. p \in [bytes : Seq(Byte), capacity : Nat]
    BY CodecAssumption
  <2> QED BY <2>1, <2>2
<1>3. consumed = 3 * 0 /\ Extended(out, <<>>, ReferenceEncode(src), 4 * 0)
  <2>1. consumed = 0 /\ out = <<>>
    BY DEF CodecInit
  <2>2. 4 * 0 = 0 /\ 3 * 0 = 0 /\ 1 .. 0 = {} /\ Len(<<>>) = 0 + 0
    BY EmptyText
  <2>3. Extended(<<>>, <<>>, ReferenceEncode(src), 0)
    BY <2>2, EmptyText DEF Extended
  <2> QED BY <2>1, <2>2, <2>3
<1>4. result = Pending
  BY DEF CodecInit
<1>5. 0 \in Nat
  OBVIOUS
<1> QED BY <1>1, <1>2, <1>3, <1>4, <1>5 DEF TextInv

\* Every step keeps the text, and the result, right.
LEMMA TextNext ==
  ASSUME TextInv, [CodecNext]_codecVars
  PROVE  TextInv'
<1>1. CodecInv /\ src \in Seq(Byte)
  BY DEF TextInv
<1>2. CodecInv'
  BY <1>1, CodecNextInv
<1>3. src' = src /\ coding' = coding /\ dstLen' = dstLen
  BY DEF CodecNext, codecVars, StartEncode, StartDecode, EncodeStep, DecodeStep, LeaveLoop,
         ScalarTail
<1> DEFINE Right == IF dstLen > B64Len(Len(src))
                    THEN Ok(ReferenceEncode(src), Len(src)) ELSE Err
           Written == \E k \in Nat :
                        consumed = 3 * k /\ Extended(out, <<>>, ReferenceEncode(src), 4 * k)
<1>4. CASE coding # "encode"
  BY <1>1, <1>2, <1>3, <1>4 DEF TextInv
<1>5. CASE coding = "encode"
  <2>1. Written /\ (result # Pending => result = Right)
    BY <1>5 DEF TextInv
  <2>2. Written'
    <3>1. CASE EncodeStep
      BY <1>3, <3>1, TextGrows
    <3>2. CASE UNCHANGED <<consumed, out>>
      BY <1>3, <2>1, <3>2
    <3> QED BY <1>5, <3>1, <3>2 DEF CodecNext, codecVars, StartEncode, StartDecode, DecodeStep,
              LeaveLoop, ScalarTail
  <2>3. result' # Pending => result' = Right
    <3>1. CASE StartEncode
      <4>1. dstLen \in Int /\ B64Len(Len(src)) \in Int
        BY <1>1, InThrees DEF CodecInv
      <4>2. dstLen <= B64Len(Len(src)) => Right = Err
        BY <4>1
      <4> QED BY <2>1, <3>1, <4>2 DEF StartEncode
    <3>2. CASE ScalarTail
      <4>1. result' = Ok(EncodeScalar(out, Rest), Len(src)) /\ loop = Len(Loops) + 1
        BY <1>5, <3>2 DEF ScalarTail
      <4>2. EncodeScalar(out, Rest) = ReferenceEncode(src)
        BY <1>5, TextEnds
      <4>3. loop > 0
        <5>1. Loops = EncodeLoops[backend]
          BY <1>5 DEF Loops
        <5>2. Len(Loops) \in Nat
          BY <1>1, <5>1, CodecAssumption DEF EncodeLoops, CodecInv
        <5> QED BY <4>1, <5>2
      <4>4. dstLen > B64Len(Len(src))
        <5>1. B64Len(Len(src)) < dstLen
          BY <1>1, <1>5, <4>3 DEF CodecInv
        <5>2. dstLen \in Int /\ B64Len(Len(src)) \in Int
          BY <1>1, InThrees DEF CodecInv
        <5> QED BY <5>1, <5>2
      <4> QED BY <4>1, <4>2, <4>4
    <3>3. CASE UNCHANGED result
      BY <2>1, <3>3
    <3> QED BY <1>5, <3>1, <3>2, <3>3 DEF CodecNext, codecVars, StartDecode, EncodeStep,
              DecodeStep, LeaveLoop
  <2>4. Written' /\ (result' # Pending' => result' = Right')
    BY <1>3, <2>2, <2>3 DEF Pending
  <2> QED BY <1>1, <1>2, <1>3, <2>4 DEF TextInv
<1> QED BY <1>4, <1>5

\* For every backend, every input and every capacity: the text is that of RFC 4648, and
\* an error is returned exactly when it does not fit with its NUL.
THEOREM EncodesTheText == CodecSpec => []EncodesAsReference
<1>1. TextInv => EncodesAsReference
  <2> SUFFICES ASSUME TextInv, coding = "encode", result # Pending
               PROVE  result = IF dstLen > Len(ReferenceEncode(src))
                               THEN Ok(ReferenceEncode(src), Len(src)) ELSE Err
    BY DEF EncodesAsReference
  <2>1. Len(ReferenceEncode(src)) = B64Len(Len(src))
    BY ReferenceText DEF TextInv, Measures
  <2> QED BY <2>1 DEF TextInv
<1> QED BY <1>1, TextStarts, TextNext, PTL DEF CodecSpec

-----------------------------------------------------------------------------
(* The values of letters                                                     *)

\* The value of a byte of text, or Invalid where it is not in the alphabet.
CharValue(c) ==
  IF 65 <= c /\ c <= 90 THEN c - 65 ELSE IF 97 <= c /\ c <= 122 THEN c - 71
  ELSE IF 48 <= c /\ c <= 57 THEN c + 4 ELSE IF c = 43 THEN 62
  ELSE IF c = 47 THEN 63 ELSE Invalid

\* It is the inverse of the alphabet.
LEMMA CharValueIs ==
  ASSUME NEW c \in Byte
  PROVE  /\ CharValue(c) \in 0 .. 63 \/ CharValue(c) = Invalid
         /\ c \in AlphabetChars <=> CharValue(c) # Invalid
         /\ c \in AlphabetChars => ValueOfChar[c] = CharValue(c) /\ CharValue(c) \in 0 .. 63
<1>1. CharValue(c) \in 0 .. 63 \/ CharValue(c) = 255
  BY DEF CharValue, Invalid, Byte
<1>2. ASSUME NEW v \in 0 .. 63, Alphabet[v] = c PROVE CharValue(c) = v
  BY <1>2, AlphabetIs DEF CharValue
<1>3. ASSUME CharValue(c) \in 0 .. 63 PROVE Alphabet[CharValue(c)] = c
  <2>1. PICK v \in 0 .. 63 : v = CharValue(c)
    BY <1>3
  <2>2. Alphabet[v] = IF v < 26 THEN v + 65 ELSE IF v < 52 THEN v + 71
                      ELSE IF v < 62 THEN v - 4 ELSE IF v = 62 THEN 43 ELSE 47
    BY AlphabetIs
  <2>3. v # 255 /\ c \in Nat
    BY DEF Byte
  <2> QED BY <2>1, <2>2, <2>3 DEF CharValue, Invalid
<1>4. c \in AlphabetChars <=> \E v \in 0 .. 63 : Alphabet[v] = c
  BY DEF AlphabetChars
<1>5. c \in AlphabetChars <=> CharValue(c) \in 0 .. 63
  <2>1. CharValue(c) \in 0 .. 63 => \E v \in 0 .. 63 : Alphabet[v] = c
    BY <1>3
  <2>2. (\E v \in 0 .. 63 : Alphabet[v] = c) => CharValue(c) \in 0 .. 63
    BY <1>2
  <2> QED BY <1>4, <2>1, <2>2
<1>6. ASSUME c \in AlphabetChars PROVE ValueOfChar[c] = CharValue(c)
  <2>1. ValueOfChar[c] = CHOOSE v \in 0 .. 63 : Alphabet[v] = c
    BY <1>6 DEF ValueOfChar
  <2>2. \E v \in 0 .. 63 : Alphabet[v] = c
    BY <1>4, <1>6
  <2>3. ValueOfChar[c] \in 0 .. 63 /\ Alphabet[ValueOfChar[c]] = c
    BY <2>1, <2>2
  <2> QED BY <1>2, <2>3
<1> QED BY <1>1, <1>5, <1>6 DEF Invalid

\* The scalar decoder: every range adds its value, and a byte outside gets Invalid.
LEMMA ScalarValues ==
  ASSUME NEW c \in Byte
  PROVE  ByteOf[c] = CharValue(c)
<1>0. c \in Nat /\ c < 256 /\ c \in Byte
  BY DEF Byte
<1>1. /\ 65 \in Byte /\ 90 \in Byte /\ 97 \in Byte /\ 122 \in Byte /\ 48 \in Byte /\ 57 \in Byte
      /\ 43 \in Byte /\ 47 \in Byte /\ 0 \in Byte
  BY DEF Byte
<1>2. /\ Ge(c, 65) = IF c >= 65 THEN 255 ELSE 0
      /\ Le(c, 90) = IF c <= 90 THEN 255 ELSE 0
      /\ Ge(c, 97) = IF c >= 97 THEN 255 ELSE 0
      /\ Le(c, 122) = IF c <= 122 THEN 255 ELSE 0
      /\ Ge(c, 48) = IF c >= 48 THEN 255 ELSE 0
      /\ Le(c, 57) = IF c <= 57 THEN 255 ELSE 0
      /\ Eq(c, 43) = IF c = 43 THEN 255 ELSE 0
      /\ Eq(c, 47) = IF c = 47 THEN 255 ELSE 0
      /\ Eq(c, 65) = IF c = 65 THEN 255 ELSE 0
  BY <1>1, Comparisons
<1>3. Short(0) /\ Short(255) /\ Short(62) /\ Short(63) /\ Short(c + 4)
  BY <1>0 DEF Short
<1>4. (255 & 255) = 255 /\ (255 & 0) = 0 /\ (0 & 255) = 0 /\ (0 & 0) = 0
  BY <1>3, Masks
<1>5. (0 & 62) = 0 /\ (255 & 62) = 62 /\ (0 & 63) = 0 /\ (255 & 63) = 63
  BY <1>3, Masks
<1>6. (0 & (c + 4)) = 0 /\ (c < 252 => (255 & (c + 4)) = c + 4)
  <2>1. (0 & (c + 4)) = 0 /\ (255 & (c + 4)) = (c + 4) % 256
    BY <1>3, Masks
  <2> QED BY <1>0, <2>1
<1>7. /\ (0 & Sub(c, 65)) = 0 /\ (c >= 65 => (255 & Sub(c, 65)) = c - 65)
      /\ (0 & Sub(c, 71)) = 0 /\ (c >= 71 => (255 & Sub(c, 71)) = c - 71)
  <2>1. /\ Sub(c, 65) = IF c >= 65 THEN c - 65 ELSE c + 65471
        /\ Sub(c, 71) = IF c >= 71 THEN c - 71 ELSE c + 65465
    BY <1>0 DEF Sub, Word16
  <2>2. Short(Sub(c, 65)) /\ Short(Sub(c, 71))
    BY <1>0, <2>1 DEF Short
  <2>3. /\ (0 & Sub(c, 65)) = 0 /\ (255 & Sub(c, 65)) = Sub(c, 65) % 256
        /\ (0 & Sub(c, 71)) = 0 /\ (255 & Sub(c, 71)) = Sub(c, 71) % 256
    BY <2>2, Masks
  <2> QED BY <1>0, <2>1, <2>3
<1> DEFINE upper == (Ge(c, 65) & Le(c, 90)) & Sub(c, 65)
           lower == (Ge(c, 97) & Le(c, 122)) & Sub(c, 71)
           digit == (Ge(c, 48) & Le(c, 57)) & (c + 4)
           plus  == Eq(c, 43) & 62
           slash == Eq(c, 47) & 63
           x == (((upper | lower) | digit) | plus) | slash
<1>8. upper = IF c >= 65 /\ c <= 90 THEN c - 65 ELSE 0
  BY <1>2, <1>4, <1>7
<1>9. lower = IF c >= 97 /\ c <= 122 THEN c - 71 ELSE 0
  <2>1. c >= 97 => c >= 71
    BY <1>0
  <2> QED BY <1>2, <1>4, <1>7, <2>1
<1>10. digit = IF c >= 48 /\ c <= 57 THEN c + 4 ELSE 0
  <2>1. c <= 57 => c < 252
    BY <1>0
  <2> QED BY <1>2, <1>4, <1>6, <2>1
<1>11. plus = (IF c = 43 THEN 62 ELSE 0) /\ slash = (IF c = 47 THEN 63 ELSE 0)
  BY <1>2, <1>5
<1>12. ByteOf[c] = x | (Eq(x, 0) & (Eq(c, 65) ^^ 255))
  <2>1. ByteOf[c] = x | (Eq(x, 0) & (Eq(c, 65) ^^ \hFF))
    BY DEF ByteOf, B64CharToByte
  <2> HIDE DEF x
  <2> QED BY <2>1
<1> HIDE DEF upper, lower, digit, plus, slash
<1>13. ASSUME NEW w, Short(w) PROVE (w | 0) = w /\ (0 | w) = w
  BY <1>13, Ors
<1>14. (0 | 0) = 0
  BY <1>3, <1>13
<1> DEFINE v == CharValue(c)
<1>15. x = IF v = Invalid THEN 0 ELSE v
  <2>1. CASE c >= 65 /\ c <= 90
    <3>1. upper = c - 65 /\ lower = 0 /\ digit = 0 /\ plus = 0 /\ slash = 0 /\ v = c - 65
      BY <1>0, <1>8, <1>9, <1>10, <1>11, <2>1 DEF CharValue
    <3>2. Short(c - 65) /\ c - 65 # 255
      BY <1>0, <2>1 DEF Short
    <3> HIDE DEF v
    <3> QED BY <1>13, <3>1, <3>2 DEF Invalid
  <2>2. CASE c >= 97 /\ c <= 122
    <3>1. upper = 0 /\ lower = c - 71 /\ digit = 0 /\ plus = 0 /\ slash = 0 /\ v = c - 71
      BY <1>0, <1>8, <1>9, <1>10, <1>11, <2>2 DEF CharValue
    <3>2. Short(c - 71) /\ c - 71 # 255
      BY <1>0, <2>2 DEF Short
    <3> HIDE DEF v
    <3> QED BY <1>13, <3>1, <3>2 DEF Invalid
  <2>3. CASE c >= 48 /\ c <= 57
    <3>1. upper = 0 /\ lower = 0 /\ digit = c + 4 /\ plus = 0 /\ slash = 0 /\ v = c + 4
      BY <1>0, <1>8, <1>9, <1>10, <1>11, <2>3 DEF CharValue
    <3>2. Short(c + 4) /\ c + 4 # 255
      BY <1>0, <2>3 DEF Short
    <3> HIDE DEF v
    <3> QED BY <1>13, <1>14, <3>1, <3>2 DEF Invalid
  <2>4. CASE c = 43
    <3>1. upper = 0 /\ lower = 0 /\ digit = 0 /\ plus = 62 /\ slash = 0 /\ v = 62
      BY <1>8, <1>9, <1>10, <1>11, <2>4 DEF CharValue
    <3> HIDE DEF v
    <3> QED BY <1>3, <1>13, <1>14, <3>1 DEF Invalid
  <2>5. CASE c = 47
    <3>1. upper = 0 /\ lower = 0 /\ digit = 0 /\ plus = 0 /\ slash = 63 /\ v = 63
      BY <1>8, <1>9, <1>10, <1>11, <2>5 DEF CharValue
    <3> HIDE DEF v
    <3> QED BY <1>3, <1>13, <1>14, <3>1 DEF Invalid
  <2>6. CASE ~(c >= 65 /\ c <= 90) /\ ~(c >= 97 /\ c <= 122) /\ ~(c >= 48 /\ c <= 57)
             /\ c # 43 /\ c # 47
    <3>1. upper = 0 /\ lower = 0 /\ digit = 0 /\ plus = 0 /\ slash = 0 /\ v = Invalid
      BY <1>0, <1>8, <1>9, <1>10, <1>11, <2>6 DEF CharValue
    <3> HIDE DEF v
    <3> QED BY <1>14, <3>1
  <2> QED BY <2>1, <2>2, <2>3, <2>4, <2>5, <2>6
<1> HIDE DEF x
<1>16. v \in 0 .. 63 \/ v = Invalid
  BY CharValueIs
<1>17. Invalid = 255
  BY DEF Invalid
<1>18. (Eq(c, 65) ^^ 255) = IF c = 65 THEN 0 ELSE 255
  BY <1>2, Xors
<1>19. CASE v = Invalid
  <2>1. x = 0 /\ Eq(x, 0) = 255 /\ c # 65
    <3>1. c # 65
      BY <1>17, <1>19 DEF CharValue
    <3>2. x = 0
      BY <1>15, <1>19
    <3> QED BY <1>1, <3>1, <3>2, Comparisons
  <2>2. (0 | 255) = 255
    BY <1>3, <1>13
  <2> QED BY <1>4, <1>12, <1>17, <1>18, <1>19, <2>1, <2>2
<1>20. CASE v = 0
  <2>1. x = 0 /\ Eq(x, 0) = 255
    <3>1. x = 0
      BY <1>15, <1>17, <1>20
    <3> QED BY <1>1, <3>1, Comparisons
  <2>2. c = 65
    BY <1>0, <1>17, <1>20 DEF CharValue
  <2> QED BY <1>4, <1>12, <1>14, <1>17, <1>18, <1>20, <2>1, <2>2
<1>21. CASE v \in 1 .. 63
  <2>1. x = v /\ Eq(x, 0) = 0
    <3>1. x = v /\ v # 0 /\ v \in Byte
      BY <1>15, <1>17, <1>21 DEF Byte
    <3> QED BY <1>1, <3>1, Comparisons
  <2>2. (0 & (Eq(c, 65) ^^ 255)) = 0
    BY <1>4, <1>18
  <2>3. Short(v)
    BY <1>21 DEF Short
  <2> QED BY <1>12, <1>13, <1>17, <2>1, <2>2, <2>3
<1> QED BY <1>16, <1>19, <1>20, <1>21

\* The vector decoders: signed and unsigned comparisons find the same ranges.
LEMMA VectorValues ==
  ASSUME NEW x, \A i \in DOMAIN x : x[i] \in Byte
  PROVE  /\ DecodeTranslate(x) = [i \in DOMAIN x |-> CharValue(x[i])]
         /\ UnsignedDecodeValues(x) = [i \in DOMAIN x |-> CharValue(x[i])]
<1> DEFINE in(c, lo, hi) == Above(c, lo - 1) /\ Above(hi + 1, c)
           value(c) == CASE in(c, 65, 90)  -> c - 65
                         [] in(c, 97, 122) -> c - 97 + 26
                         [] in(c, 48, 57)  -> c - 48 + 52
                         [] c = 43 -> 62 [] c = 47 -> 63 [] OTHER -> Invalid
           within(c, lo, hi) == lo <= c /\ c <= hi
           unsigned(c) ==
             CASE c = 47 -> 63 [] c = 43 -> 62
               [] within(c, 48, 57) -> (c - 48) + 52 [] within(c, 97, 122) -> (c - 97) + 26
               [] within(c, 65, 90) -> c - 65 [] OTHER -> Invalid
<1>1. ASSUME NEW c \in Byte
      PROVE  /\ in(c, 65, 90) <=> 65 <= c /\ c <= 90
             /\ in(c, 97, 122) <=> 97 <= c /\ c <= 122
             /\ in(c, 48, 57) <=> 48 <= c /\ c <= 57
  BY DEF Above, Signed, Byte
<1>2. ASSUME NEW c \in Byte PROVE value(c) = CharValue(c)
  <2>1. c \in Nat
    BY DEF Byte
  <2> HIDE DEF in
  <2> QED BY <1>1, <2>1 DEF CharValue
<1>3. ASSUME NEW c \in Byte PROVE unsigned(c) = CharValue(c)
  <2>1. c \in Nat
    BY DEF Byte
  <2> QED BY <2>1 DEF CharValue
<1>4. DecodeTranslate(x) = [i \in DOMAIN x |-> value(x[i])]
  BY DEF DecodeTranslate
<1>5. UnsignedDecodeValues(x) = [i \in DOMAIN x |-> unsigned(x[i])]
  BY DEF UnsignedDecodeValues
<1> HIDE DEF value, unsigned
<1> QED BY <1>2, <1>3, <1>4, <1>5

-----------------------------------------------------------------------------
(* The bytes of four letters, in every backend                               *)

\* The digits of a word of 32 bits are those of its halves.
LEMMA LongDigits ==
  ASSUME NEW a, Short(a), NEW b, Short(b), NEW x, x = a + 65536 * b
  PROVE  /\ \A i \in 0 .. 3 : HexDigit(x, i) = HexDigit(a, i)
         /\ \A i \in 4 .. 7 : HexDigit(x, i) = HexDigit(b, i - 4)
<1>1. PICK d \in Digits : a = Value(d)
  BY HasDigits
<1>2. PICK e \in Digits : b = Value(e)
  BY HasDigits
<1>3. PICK p, q, r, s : p = d[0] /\ q = d[1] /\ r = d[2] /\ s = d[3]
  OBVIOUS
<1>4. PICK t, u, v, w : t = e[0] /\ u = e[1] /\ v = e[2] /\ w = e[3]
  OBVIOUS
<1>5. /\ p \in 0 .. 15 /\ q \in 0 .. 15 /\ r \in 0 .. 15 /\ s \in 0 .. 15
      /\ t \in 0 .. 15 /\ u \in 0 .. 15 /\ v \in 0 .. 15 /\ w \in 0 .. 15
  BY <1>3, <1>4 DEF Digits, Digit
<1>6. /\ a = p + 16 * q + 256 * r + 4096 * s
      /\ b = t + 16 * u + 256 * v + 4096 * w
  BY <1>1, <1>2, <1>3, <1>4 DEF Value
<1>7. \A i \in 0 .. 3 : HexDigit(a, i) = d[i] /\ HexDigit(b, i) = e[i]
  BY <1>1, <1>2, HexDigits
<1>8. /\ HexDigit(x, 0) = p /\ HexDigit(x, 1) = q /\ HexDigit(x, 2) = r /\ HexDigit(x, 3) = s
  <2>1. x \div 1 = x /\ x = 16 * (q + 16 * r + 256 * s + 4096 * b) + p /\ b \in Nat
    BY <1>5, <1>6
  <2>2. x \div 16 = 16 * (r + 16 * s + 256 * b) + q
    BY <1>5, <1>6, <2>1
  <2>3. x \div 256 = 16 * (s + 16 * b) + r
    BY <1>5, <1>6, <2>1
  <2>4. x \div 4096 = 16 * b + s
    BY <1>5, <1>6, <2>1
  <2>5. HexDigit(x, 0) = p
    BY <1>5, <2>1 DEF HexDigit
  <2>6. HexDigit(x, 1) = q
    BY <1>5, <2>1, <2>2 DEF HexDigit
  <2>7. HexDigit(x, 2) = r
    BY <1>5, <2>1, <2>3 DEF HexDigit
  <2>8. HexDigit(x, 3) = s
    BY <1>5, <2>1, <2>4 DEF HexDigit
  <2> QED BY <2>5, <2>6, <2>7, <2>8
<1>9. /\ HexDigit(x, 4) = t /\ HexDigit(x, 5) = u /\ HexDigit(x, 6) = v /\ HexDigit(x, 7) = w
  <2>1. a \in Nat /\ a < 65536
    BY DEF Short
  <2>2. x \div 65536 = 16 * (u + 16 * v + 256 * w) + t
    BY <1>5, <1>6, <2>1
  <2>3. x \div 1048576 = 16 * (v + 16 * w) + u
    BY <1>5, <1>6, <2>1
  <2>4. x \div 16777216 = 16 * w + v
    BY <1>5, <1>6, <2>1
  <2>5. x \div 268435456 = w
    BY <1>5, <1>6, <2>1
  <2>6. HexDigit(x, 4) = t
    BY <1>5, <2>2 DEF HexDigit
  <2>7. HexDigit(x, 5) = u
    BY <1>5, <2>3 DEF HexDigit
  <2>8. HexDigit(x, 6) = v
    BY <1>5, <2>4 DEF HexDigit
  <2>9. HexDigit(x, 7) = w
    BY <1>5, <2>5 DEF HexDigit
  <2> QED BY <2>6, <2>7, <2>8, <2>9
<1>10. ASSUME NEW i \in 0 .. 3 PROVE HexDigit(x, i) = HexDigit(a, i)
  <2>1. i = 0 \/ i = 1 \/ i = 2 \/ i = 3
    OBVIOUS
  <2> QED BY <1>3, <1>7, <1>8, <2>1
<1>11. ASSUME NEW i \in 4 .. 7 PROVE HexDigit(x, i) = HexDigit(b, i - 4)
  <2>1. i = 4 \/ i = 5 \/ i = 6 \/ i = 7
    OBVIOUS
  <2>2. /\ HexDigit(b, 0) = t /\ HexDigit(b, 1) = u /\ HexDigit(b, 2) = v /\ HexDigit(b, 3) = w
    BY <1>4, <1>7
  <2>3. 4 - 4 = 0 /\ 5 - 4 = 1 /\ 6 - 4 = 2 /\ 7 - 4 = 3
    OBVIOUS
  <2> QED BY <1>9, <2>1, <2>2, <2>3
<1> QED BY <1>10, <1>11

\* A disjunction of words of 32 bits is that of their halves.
LEMMA LongOrs ==
  ASSUME NEW a, Short(a), NEW b, Short(b), NEW c, Short(c), NEW d, Short(d),
         NEW x, x = a + 65536 * b, NEW y, y = c + 65536 * d
  PROVE  (x | y) = (a | c) + 65536 * (b | d)
<1> DEFINE at(u, v, i) == OrTable[HexDigit(u, i)][HexDigit(v, i)]
<1>1. ASSUME NEW u, NEW v
      PROVE  (u | v) = at(u, v, 0) + 16 * (at(u, v, 1) + 16 * (at(u, v, 2)
                         + 16 * (at(u, v, 3) + 16 * (at(u, v, 4) + 16 * (at(u, v, 5)
                         + 16 * (at(u, v, 6) + 16 * at(u, v, 7)))))))
  <2>1. (u | v) = ByDigits(OrTable, u, v)
    BY DEF |
  <2> QED BY <2>1 DEF ByDigits
<1>2. ASSUME NEW u, Short(u), NEW v, Short(v)
      PROVE  /\ \A i \in 0 .. 3 : at(u, v, i) \in Int
             /\ at(u, v, 4) = 0 /\ at(u, v, 5) = 0 /\ at(u, v, 6) = 0 /\ at(u, v, 7) = 0
  <2>1. PICK e \in Digits : u = Value(e)
    BY <1>2, HasDigits
  <2>2. PICK f \in Digits : v = Value(f)
    BY <1>2, HasDigits
  <2>3. /\ \A i \in 0 .. 3 : HexDigit(u, i) = e[i] /\ HexDigit(v, i) = f[i]
        /\ \A i \in 4 .. 7 : HexDigit(u, i) = 0 /\ HexDigit(v, i) = 0
    BY <2>1, <2>2, HexDigits
  <2>4. ASSUME NEW i \in 0 .. 3 PROVE at(u, v, i) \in Int
    <3>1. e[i] \in Digit /\ f[i] \in Digit
      BY DEF Digits
    <3>2. OrTable[e[i]][f[i]] \in Digit
      BY <3>1, TablesGive
    <3> QED BY <2>3, <3>2 DEF Digit
  <2>5. OrTable[0][0] = 0
    BY OrDigit DEF Digit
  <2>6. ASSUME NEW i \in 4 .. 7 PROVE at(u, v, i) = 0
    BY <2>3, <2>5
  <2> HIDE DEF at
  <2>7. 4 \in 4 .. 7 /\ 5 \in 4 .. 7 /\ 6 \in 4 .. 7 /\ 7 \in 4 .. 7
    OBVIOUS
  <2> QED BY <2>4, <2>6, <2>7
<1>3. ASSUME NEW i \in 0 .. 3 PROVE at(x, y, i) = at(a, c, i)
  BY LongDigits
<1>4. ASSUME NEW i \in 4 .. 7 PROVE at(x, y, i) = at(b, d, i - 4)
  BY LongDigits
<1> HIDE DEF at
<1>5. (a | c) = at(a, c, 0) + 16 * at(a, c, 1) + 256 * at(a, c, 2) + 4096 * at(a, c, 3)
  <2>1. /\ at(a, c, 0) \in Int /\ at(a, c, 1) \in Int /\ at(a, c, 2) \in Int
        /\ at(a, c, 3) \in Int /\ at(a, c, 4) = 0 /\ at(a, c, 5) = 0 /\ at(a, c, 6) = 0
        /\ at(a, c, 7) = 0
    BY <1>2
  <2> QED BY <1>1, <2>1
<1>6. (b | d) = at(b, d, 0) + 16 * at(b, d, 1) + 256 * at(b, d, 2) + 4096 * at(b, d, 3)
  <2>1. /\ at(b, d, 0) \in Int /\ at(b, d, 1) \in Int /\ at(b, d, 2) \in Int
        /\ at(b, d, 3) \in Int /\ at(b, d, 4) = 0 /\ at(b, d, 5) = 0 /\ at(b, d, 6) = 0
        /\ at(b, d, 7) = 0
    BY <1>2
  <2> QED BY <1>1, <2>1
<1>7. /\ at(x, y, 0) = at(a, c, 0) /\ at(x, y, 1) = at(a, c, 1)
      /\ at(x, y, 2) = at(a, c, 2) /\ at(x, y, 3) = at(a, c, 3)
  BY <1>3
<1>8. /\ at(x, y, 4) = at(b, d, 0) /\ at(x, y, 5) = at(b, d, 1)
      /\ at(x, y, 6) = at(b, d, 2) /\ at(x, y, 7) = at(b, d, 3)
  <2>1. 4 - 4 = 0 /\ 5 - 4 = 1 /\ 6 - 4 = 2 /\ 7 - 4 = 3
    OBVIOUS
  <2>2. /\ at(x, y, 4) = at(b, d, 4 - 4) /\ at(x, y, 5) = at(b, d, 5 - 4)
        /\ at(x, y, 6) = at(b, d, 6 - 4) /\ at(x, y, 7) = at(b, d, 7 - 4)
    BY <1>4
  <2> QED BY <2>1, <2>2
<1>9. /\ at(a, c, 0) \in Int /\ at(a, c, 1) \in Int /\ at(a, c, 2) \in Int /\ at(a, c, 3) \in Int
      /\ at(b, d, 0) \in Int /\ at(b, d, 1) \in Int /\ at(b, d, 2) \in Int /\ at(b, d, 3) \in Int
  BY <1>2
<1>10. (x | y) = at(a, c, 0) + 16 * (at(a, c, 1) + 16 * (at(a, c, 2)
                            + 16 * (at(a, c, 3) + 16 * (at(b, d, 0) + 16 * (at(b, d, 1)
                            + 16 * (at(b, d, 2) + 16 * at(b, d, 3)))))))
  BY <1>1, <1>7, <1>8
<1> QED BY <1>5, <1>6, <1>9, <1>10

\* Four values of six bits are three bytes.
OctetOf(a, b, c, d, p) ==
  CASE p = 0 -> 4 * a + (b \div 16)
    [] p = 1 -> 16 * (b % 16) + (c \div 4)
    [] p = 2 -> 64 * (c % 4) + d

SextetsWord(a, b, c, d) == 262144 * a + 4096 * b + 64 * c + d
OctetsWord(x, y, z) == 65536 * x + 256 * y + z

\* ... the bytes of the number of 24 bits they are together.
LEMMA OctetsAre ==
  ASSUME NEW a \in 0 .. 63, NEW b \in 0 .. 63, NEW c \in 0 .. 63, NEW d \in 0 .. 63
  PROVE  /\ \A p \in 0 .. 2 : OctetOf(a, b, c, d, p) \in Byte
         /\ SextetsWord(a, b, c, d) = OctetsWord(OctetOf(a, b, c, d, 0), OctetOf(a, b, c, d, 1),
                                          OctetOf(a, b, c, d, 2))
<1>1. PICK b1, b0, c1, c0 : /\ b1 = b \div 16 /\ b0 = b % 16
                            /\ c1 = c \div 4 /\ c0 = c % 4
  OBVIOUS
<1>2. b1 \in 0 .. 3 /\ b0 \in 0 .. 15 /\ b = 16 * b1 + b0
  BY <1>1
<1>3. c1 \in 0 .. 15 /\ c0 \in 0 .. 3 /\ c = 4 * c1 + c0
  BY <1>1
<1>4. /\ OctetOf(a, b, c, d, 0) = 4 * a + b1
      /\ OctetOf(a, b, c, d, 1) = 16 * b0 + c1
      /\ OctetOf(a, b, c, d, 2) = 64 * c0 + d
  BY <1>1 DEF OctetOf
<1>5. \A p \in 0 .. 2 : OctetOf(a, b, c, d, p) \in Byte
  <2>1. /\ OctetOf(a, b, c, d, 0) \in 0 .. 255 /\ OctetOf(a, b, c, d, 1) \in 0 .. 255
        /\ OctetOf(a, b, c, d, 2) \in 0 .. 255
    BY <1>2, <1>3, <1>4
  <2>2. \A p \in 0 .. 2 : p = 0 \/ p = 1 \/ p = 2
    OBVIOUS
  <2> QED BY <2>1, <2>2 DEF Byte
<1>6. SextetsWord(a, b, c, d) = OctetsWord(4 * a + b1, 16 * b0 + c1, 64 * c0 + d)
  BY <1>2, <1>3 DEF SextetsWord, OctetsWord
<1> QED BY <1>4, <1>5, <1>6

\* What the values v of n fours are as bytes.
BlockBytes(y, v, n) ==
  \A j \in 0 .. n - 1, p \in 0 .. 2 :
    y[3 * j + p + 1] =
      OctetOf(v[4 * j + 1], v[4 * j + 2], v[4 * j + 3], v[4 * j + 4], p)

\* The last shuffle takes the three bytes of each doubleword, the highest first.
LEMMA TriplesOfDwords ==
  ASSUME NEW v, \A i \in 1 .. 16 : v[i] \in 0 .. 63, NEW f,
         \A j \in 0 .. 3 : f[j] = SextetsWord(v[4 * j + 1], v[4 * j + 2], v[4 * j + 3], v[4 * j + 4])
  PROVE  BlockBytes(Shuffle(FromDwords(f), Triples), v, 4)
<1> SUFFICES ASSUME NEW j \in 0 .. 3, NEW p \in 0 .. 2
             PROVE  Shuffle(FromDwords(f), Triples)[3 * j + p + 1] =
                      OctetOf(v[4 * j + 1], v[4 * j + 2], v[4 * j + 3], v[4 * j + 4], p)
  <2>1. 0 .. 4 - 1 = 0 .. 3
    OBVIOUS
  <2> QED BY <2>1, Zenon DEF BlockBytes
<1>1. PICK a, b, c, d : /\ a = v[4 * j + 1] /\ b = v[4 * j + 2]
                        /\ c = v[4 * j + 3] /\ d = v[4 * j + 4]
  OBVIOUS
<1>2. a \in 0 .. 63 /\ b \in 0 .. 63 /\ c \in 0 .. 63 /\ d \in 0 .. 63
  <2>1. 4 * j + 1 \in 1 .. 16 /\ 4 * j + 2 \in 1 .. 16 /\ 4 * j + 3 \in 1 .. 16
        /\ 4 * j + 4 \in 1 .. 16
    OBVIOUS
  <2> QED BY <1>1, <2>1
<1>3. PICK o : o = [q \in 0 .. 2 |-> OctetOf(a, b, c, d, q)]
  BY Zenon
<1>4. /\ o[0] \in Byte /\ o[1] \in Byte /\ o[2] \in Byte
      /\ f[j] = OctetsWord(o[0], o[1], o[2])
  <2>1. f[j] = SextetsWord(a, b, c, d)
    BY <1>1
  <2>2. /\ \A q \in 0 .. 2 : OctetOf(a, b, c, d, q) \in Byte
        /\ SextetsWord(a, b, c, d) = OctetsWord(OctetOf(a, b, c, d, 0), OctetOf(a, b, c, d, 1),
                                         OctetOf(a, b, c, d, 2))
    BY <1>2, OctetsAre, Zenon
  <2>3. /\ o[0] = OctetOf(a, b, c, d, 0) /\ o[1] = OctetOf(a, b, c, d, 1)
        /\ o[2] = OctetOf(a, b, c, d, 2) /\ 0 \in 0 .. 2 /\ 1 \in 0 .. 2 /\ 2 \in 0 .. 2
    BY <1>3
  <2> QED BY <2>1, <2>2, <2>3
<1>5. PICK w : w = f[j]
  OBVIOUS
<1>6. w \in Nat /\ w % 256 = o[2] /\ (w \div 256) % 256 = o[1] /\ (w \div 65536) % 256 = o[0]
  <2>1. PICK r, s, t : r = o[0] /\ s = o[1] /\ t = o[2]
    OBVIOUS
  <2>2. r \in 0 .. 255 /\ s \in 0 .. 255 /\ t \in 0 .. 255 /\ w = 65536 * r + 256 * s + t
    BY <1>4, <1>5, <2>1 DEF Byte, OctetsWord
  <2>3. w % 256 = t
    BY <2>2
  <2>4. w \div 256 = 256 * r + s /\ (256 * r + s) % 256 = s
    BY <2>2
  <2>5. w \div 65536 = r /\ r % 256 = r
    BY <2>2
  <2>6. w \in Nat
    BY <2>2
  <2> QED BY <2>1, <2>3, <2>4, <2>5, <2>6
<1>7. ASSUME NEW k \in 0 .. 2 PROVE FromDwords(f)[4 * j + k + 1] = ShiftRight(w, 8 * k) % 256
  <2>1. /\ 4 * j + k + 1 \in 1 .. 16 /\ (4 * j + k + 1 - 1) \div 4 = j
        /\ (4 * j + k + 1 - 1) % 4 = k
    OBVIOUS
  <2> QED BY <1>5, <2>1 DEF FromDwords
<1>8. /\ FromDwords(f)[4 * j + 1] = o[2] /\ FromDwords(f)[4 * j + 2] = o[1]
      /\ FromDwords(f)[4 * j + 3] = o[0]
  <2>1. w \in Nat
    BY <1>6
  <2>2. /\ ShiftRight(w, 8 * 0) = w /\ ShiftRight(w, 8 * 1) = w \div 256
        /\ ShiftRight(w, 8 * 2) = w \div 65536
    BY <2>1 DEF ShiftRight
  <2>3. /\ FromDwords(f)[4 * j + 0 + 1] = o[2] /\ FromDwords(f)[4 * j + 1 + 1] = o[1]
        /\ FromDwords(f)[4 * j + 2 + 1] = o[0]
    BY <1>6, <1>7, <2>2
  <2>4. 4 * j + 0 + 1 = 4 * j + 1 /\ 4 * j + 1 + 1 = 4 * j + 2 /\ 4 * j + 2 + 1 = 4 * j + 3
    OBVIOUS
  <2> QED BY <2>3, <2>4
<1>9. 3 * j + p + 1 \in 1 .. 16 /\ Triples[3 * j + p + 1] = 4 * j + (2 - p)
  <2>1. /\ Triples[1] = 2 /\ Triples[2] = 1 /\ Triples[3] = 0 /\ Triples[4] = 6
        /\ Triples[5] = 5 /\ Triples[6] = 4 /\ Triples[7] = 10 /\ Triples[8] = 9
        /\ Triples[9] = 8 /\ Triples[10] = 14 /\ Triples[11] = 13 /\ Triples[12] = 12
    BY DEF Triples
  <2>2. j = 0 \/ j = 1 \/ j = 2 \/ j = 3
    OBVIOUS
  <2>3. p = 0 \/ p = 1 \/ p = 2
    OBVIOUS
  <2> QED BY <2>1, <2>2, <2>3
<1>10. Shuffle(FromDwords(f), Triples)[3 * j + p + 1] = FromDwords(f)[4 * j + (2 - p) + 1]
  <2>1. DOMAIN Triples = 1 .. 16
    BY DEF Triples
  <2>2. ~(4 * j + (2 - p) < 0)
    OBVIOUS
  <2> QED BY <1>9, <2>1, <2>2 DEF Shuffle
<1>11. FromDwords(f)[4 * j + (2 - p) + 1] = o[p]
  <2>1. p = 0 \/ p = 1 \/ p = 2
    OBVIOUS
  <2>2. CASE p = 0
    <3>1. 4 * j + (2 - p) + 1 = 4 * j + 3
      BY <2>2
    <3> QED BY <1>8, <2>2, <3>1
  <2>3. CASE p = 1
    <3>1. 4 * j + (2 - p) + 1 = 4 * j + 2
      BY <2>3
    <3> QED BY <1>8, <2>3, <3>1
  <2>4. CASE p = 2
    <3>1. 4 * j + (2 - p) + 1 = 4 * j + 1
      BY <2>4
    <3> QED BY <1>8, <2>4, <3>1
  <2> QED BY <2>1, <2>2, <2>3, <2>4
<1> QED BY <1>1, <1>3, <1>10, <1>11

\* More words without a common bit: two bits and six,
LEMMA OrOfEight ==
  ASSUME NEW x \in 0 .. 3, NEW y \in 0 .. 63, NEW u, u = 64 * x
  PROVE  (u | y) = u + y
<1>0. 0 \in Digit
  BY DEF Digit
<1>1. PICK y0, y1 : y0 = y % 16 /\ y1 = y \div 16
  OBVIOUS
<1>2. PICK a : a = 4 * x
  OBVIOUS
<1>3. a \in 0 .. 15 /\ y0 \in 0 .. 15 /\ y1 \in 0 .. 3 /\ y = 16 * y1 + y0
  BY <1>1, <1>2
<1>4. a \in Digit /\ y0 \in Digit /\ y1 \in Digit
  BY <1>3 DEF Digit
<1> DEFINE f == FourDigits(0, a, 0, 0)
           g == FourDigits(y0, y1, 0, 0)
<1>5. /\ f \in Digits /\ f[0] = 0 /\ f[1] = a /\ f[2] = 0 /\ f[3] = 0
      /\ Value(f) = 0 + 16 * a + 256 * 0 + 4096 * 0
  <2>1. a \in Digit
    BY <1>4
  <2> QED BY <1>0, <2>1, FourDigitsAre
<1>6. /\ g \in Digits /\ g[0] = y0 /\ g[1] = y1 /\ g[2] = 0 /\ g[3] = 0
      /\ Value(g) = y0 + 16 * y1 + 256 * 0 + 4096 * 0
  <2>1. y0 \in Digit /\ y1 \in Digit
    BY <1>4
  <2> QED BY <1>0, <2>1, FourDigitsAre
<1> HIDE DEF f, g
<1>7. Value(f) = u /\ Value(g) = y
  BY <1>2, <1>3, <1>5, <1>6
<1>8. OrTable[a][y1] = a + y1
  BY <1>2, <1>3, OrDigit, <1>0 DEF Digit
<1>9. OrTable[0][y0] = y0 /\ OrTable[0][0] = 0
  BY <1>0, <1>4, OrDigit
<1>10. (Value(f) | Value(g)) = y0 + 16 * (a + y1) + 256 * 0 + 4096 * 0
  BY <1>5, <1>6, <1>8, <1>9, OnDigits
<1>11. y0 + 16 * (a + y1) + 256 * 0 + 4096 * 0 = u + y
  BY <1>2, <1>3
<1> QED BY <1>7, <1>10, <1>11

\* ... four bits, a gap, and six,
LEMMA OrOfSixteen ==
  ASSUME NEW x \in 0 .. 15, NEW y \in 0 .. 63, NEW u, u = 4096 * x
  PROVE  (u | y) = u + y
<1>0. 0 \in Digit
  BY DEF Digit
<1>1. PICK y0, y1 : y0 = y % 16 /\ y1 = y \div 16
  OBVIOUS
<1>2. y0 \in 0 .. 15 /\ y1 \in 0 .. 15 /\ y = 16 * y1 + y0
  BY <1>1
<1>4. y0 \in Digit /\ y1 \in Digit /\ x \in Digit
  BY <1>2 DEF Digit
<1> DEFINE f == FourDigits(0, 0, 0, x)
           g == FourDigits(y0, y1, 0, 0)
<1>5. /\ f \in Digits /\ f[0] = 0 /\ f[1] = 0 /\ f[2] = 0 /\ f[3] = x
      /\ Value(f) = 0 + 16 * 0 + 256 * 0 + 4096 * x
  <2>1. x \in Digit
    BY <1>4
  <2> QED BY <1>0, <2>1, FourDigitsAre
<1>6. /\ g \in Digits /\ g[0] = y0 /\ g[1] = y1 /\ g[2] = 0 /\ g[3] = 0
      /\ Value(g) = y0 + 16 * y1 + 256 * 0 + 4096 * 0
  <2>1. y0 \in Digit /\ y1 \in Digit
    BY <1>4
  <2> QED BY <1>0, <2>1, FourDigitsAre
<1> HIDE DEF f, g
<1>7. Value(f) = u /\ Value(g) = y
  BY <1>2, <1>5, <1>6
<1>8. OrTable[0][y0] = y0 /\ OrTable[0][y1] = y1 /\ OrTable[0][0] = 0 /\ OrTable[x][0] = x
  BY <1>0, <1>4, OrDigit
<1>9. (Value(f) | Value(g)) = y0 + 16 * y1 + 256 * 0 + 4096 * x
  BY <1>5, <1>6, <1>8, OnDigits
<1>10. y0 + 16 * y1 + 256 * 0 + 4096 * x = u + y
  BY <1>2
<1> QED BY <1>7, <1>9, <1>10

\* ... and six bits in that gap.
LEMMA OrInGap ==
  ASSUME NEW u \in Nat, u < 4096, u % 64 = 0, NEW w \in Nat, w < 65536, w % 4096 < 64
  PROVE  (u | w) = u + w
<1>0. 0 \in Digit
  BY DEF Digit
<1>12. PICK c, x, y : c = u \div 64 /\ x = w \div 4096 /\ y = w % 4096
  OBVIOUS
<1>13. c \in 0 .. 63 /\ x \in 0 .. 15 /\ y \in 0 .. 63 /\ u = 64 * c /\ w = 4096 * x + y
  BY <1>12
<1>1. PICK c0, c1, y0, y1 : c0 = c % 4 /\ c1 = c \div 4 /\ y0 = y % 16 /\ y1 = y \div 16
  OBVIOUS
<1>2. PICK a : a = 4 * c0
  OBVIOUS
<1>3. c0 \in 0 .. 3 /\ c1 \in 0 .. 15 /\ c = 4 * c1 + c0 /\ a \in 0 .. 15
      /\ y0 \in 0 .. 15 /\ y1 \in 0 .. 3 /\ y = 16 * y1 + y0
  BY <1>1, <1>2, <1>13
<1>4. c1 \in Digit /\ a \in Digit /\ y0 \in Digit /\ y1 \in Digit /\ x \in Digit
  BY <1>3, <1>13 DEF Digit
<1> DEFINE f == FourDigits(0, a, c1, 0)
           g == FourDigits(y0, y1, 0, x)
<1>5. /\ f \in Digits /\ f[0] = 0 /\ f[1] = a /\ f[2] = c1 /\ f[3] = 0
      /\ Value(f) = 0 + 16 * a + 256 * c1 + 4096 * 0
  <2>1. a \in Digit /\ c1 \in Digit
    BY <1>4
  <2> QED BY <1>0, <2>1, FourDigitsAre
<1>6. /\ g \in Digits /\ g[0] = y0 /\ g[1] = y1 /\ g[2] = 0 /\ g[3] = x
      /\ Value(g) = y0 + 16 * y1 + 256 * 0 + 4096 * x
  <2>1. y0 \in Digit /\ y1 \in Digit /\ x \in Digit
    BY <1>4
  <2> QED BY <1>0, <2>1, FourDigitsAre
<1> HIDE DEF f, g
<1>7. Value(f) = u /\ Value(g) = w
  BY <1>2, <1>3, <1>5, <1>6, <1>13
<1>8. OrTable[a][y1] = a + y1
  BY <1>2, <1>3, OrDigit, <1>0 DEF Digit
<1>9. OrTable[0][y0] = y0 /\ OrTable[c1][0] = c1 /\ OrTable[0][x] = x
  BY <1>4, OrDigit
<1>10. (Value(f) | Value(g)) = y0 + 16 * (a + y1) + 256 * c1 + 4096 * x
  BY <1>5, <1>6, <1>8, <1>9, OnDigits
<1>11. y0 + 16 * (a + y1) + 256 * c1 + 4096 * x = u + w
  BY <1>2, <1>3, <1>13
<1> QED BY <1>7, <1>10, <1>11

\* x86 joins two values and then two pairs by multiplying and adding.
LEMMA ReshuffledBytes ==
  ASSUME NEW v, \A i \in 1 .. 16 : v[i] \in 0 .. 63
  PROVE  BlockBytes(DecodeReshuffle(v), v, 4)
<1> DEFINE merged(i) == v[2 * i + 1] * \h40 + v[2 * i + 2]
           dword(i)  == merged(2 * i) * \h1000 + merged(2 * i + 1)
           f == [i \in 0 .. 3 |-> dword(i)]
<1>1. DecodeReshuffle(v) = Shuffle(FromDwords(f), Triples)
  BY DEF DecodeReshuffle
<1>2. ASSUME NEW j \in 0 .. 3
      PROVE  f[j] = SextetsWord(v[4 * j + 1], v[4 * j + 2], v[4 * j + 3], v[4 * j + 4])
  <2>1. PICK a, b, c, d : /\ a = v[4 * j + 1] /\ b = v[4 * j + 2]
                          /\ c = v[4 * j + 3] /\ d = v[4 * j + 4]
    OBVIOUS
  <2>2. a \in 0 .. 63 /\ b \in 0 .. 63 /\ c \in 0 .. 63 /\ d \in 0 .. 63
    <3>1. 4 * j + 1 \in 1 .. 16 /\ 4 * j + 2 \in 1 .. 16 /\ 4 * j + 3 \in 1 .. 16
          /\ 4 * j + 4 \in 1 .. 16
      OBVIOUS
    <3> QED BY <2>1, <3>1
  <2>3. merged(2 * j) = a * 64 + b /\ merged(2 * j + 1) = c * 64 + d
    <3>1. /\ 2 * (2 * j) + 1 = 4 * j + 1 /\ 2 * (2 * j) + 2 = 4 * j + 2
          /\ 2 * (2 * j + 1) + 1 = 4 * j + 3 /\ 2 * (2 * j + 1) + 2 = 4 * j + 4
      OBVIOUS
    <3> QED BY <2>1, <3>1
  <2>4. f[j] = merged(2 * j) * 4096 + merged(2 * j + 1)
    <3> HIDE DEF merged
    <3> QED OBVIOUS
  <2> HIDE DEF merged, f
  <2>5. f[j] = SextetsWord(a, b, c, d)
    BY <2>2, <2>3, <2>4 DEF SextetsWord
  <2> QED BY <2>1, <2>5
<1> HIDE DEF f
<1> QED BY <1>1, <1>2, TriplesOfDwords

\* A store of 12 bytes of a register of 16.
LEMMA CutBytes ==
  ASSUME NEW y, IsSeq(y), Len(y) = 16, NEW v, BlockBytes(y, v, 4)
  PROVE  BlockBytes(SubSeq(y, 1, 12), v, 4)
<1>1. ASSUME NEW j \in 0 .. 3, NEW p \in 0 .. 2
      PROVE  SubSeq(y, 1, 12)[3 * j + p + 1] = y[3 * j + p + 1]
  <2>1. PICK i : i = 3 * j + p + 1
    OBVIOUS
  <2>2. i \in 1 .. 12 - 1 + 1 /\ 1 + i - 1 = i
    BY <2>1
  <2>3. SubSeq(y, 1, 12)[i] = y[1 + i - 1]
    BY <2>2, CutAt
  <2> QED BY <2>1, <2>2, <2>3
<1>2. 0 .. 4 - 1 = 0 .. 3
  OBVIOUS
<1> QED BY <1>1, <1>2, Zenon DEF BlockBytes

\* The two blocks of x86.
LEMMA X86Bytes ==
  /\ \A v : (\A i \in 1 .. 16 : v[i] \in 0 .. 63) => BlockBytes(DecodeBlock16(v), v, 4)
  /\ \A v : /\ IsSeq(v) /\ Len(v) = 32
            /\ \A i \in 1 .. 32 : v[i] \in 0 .. 63
            => BlockBytes(DecodeBlock32(v), v, 8)
<1>1. ASSUME NEW v, \A i \in 1 .. 16 : v[i] \in 0 .. 63
      PROVE  BlockBytes(DecodeBlock16(v), v, 4)
  <2>1. PICK y : y = DecodeReshuffle(v)
    OBVIOUS
  <2>2. IsSeq(y) /\ Len(y) = 16 /\ BlockBytes(y, v, 4)
    BY <1>1, <2>1, DwordsMeasure, ReshuffledBytes DEF Measures
  <2>3. DecodeBlock16(v) = SubSeq(y, 1, 12)
    BY <2>1 DEF DecodeBlock16
  <2> QED BY <2>2, <2>3, CutBytes
<1>2. ASSUME NEW v, IsSeq(v), Len(v) = 32, \A i \in 1 .. 32 : v[i] \in 0 .. 63
      PROVE  BlockBytes(DecodeBlock32(v), v, 8)
  <2>1. PICK lo, hi : lo = Low(v) /\ hi = High(v)
    OBVIOUS
  <2>2. \A i \in 1 .. 16 : lo[i] = v[i] /\ hi[i] = v[16 + i] /\ lo[i] \in 0 .. 63 /\ hi[i] \in 0 .. 63
    <3> SUFFICES ASSUME NEW i \in 1 .. 16
                 PROVE  lo[i] = v[i] /\ hi[i] = v[16 + i] /\ lo[i] \in 0 .. 63 /\ hi[i] \in 0 .. 63
      OBVIOUS
    <3>1. i \in 1 .. 16 - 1 + 1 /\ 1 + i - 1 = i /\ i \in 1 .. 32 - 17 + 1 /\ 17 + i - 1 = 16 + i
          /\ 16 + i \in 1 .. 32 /\ i \in 1 .. 32
      OBVIOUS
    <3>2. lo[i] = v[i]
      BY <1>2, <2>1, <3>1, CutAt DEF Low
    <3>3. hi[i] = v[16 + i]
      BY <1>2, <2>1, <3>1, CutAt DEF High
    <3> QED BY <1>2, <3>1, <3>2, <3>3
  <2>3. PICK s, t : s = DecodeReshuffle(lo) /\ t = DecodeReshuffle(hi)
    OBVIOUS
  <2>4. /\ IsSeq(s) /\ Len(s) = 16 /\ BlockBytes(s, lo, 4)
        /\ IsSeq(t) /\ Len(t) = 16 /\ BlockBytes(t, hi, 4)
    BY <2>2, <2>3, DwordsMeasure, ReshuffledBytes DEF Measures
  <2> DEFINE sel == <<0, 1, 2, 4, 5, 6, 7, 7>>
             y == PermuteDwords(s \o t, sel)
  <2>5. IsSeq(y) /\ Len(y) = 32
    <3>1. y = [i \in 1 .. 32 |-> y[i]]
      BY Zenon DEF PermuteDwords
    <3> HIDE DEF y
    <3> QED BY <3>1, FunctionIsSeq
  <2>6. DecodeBlock32(v) = SubSeq(y, 1, 24)
    BY <2>1, <2>3 DEF DecodeBlock32
  <2>7. ASSUME NEW m \in 0 .. 5, NEW k \in 1 .. 4
        PROVE  y[4 * m + k] = (s \o t)[4 * sel[m + 1] + k]
    <3>1. 4 * m + k \in 1 .. 32 /\ (4 * m + k - 1) \div 4 = m /\ (4 * m + k - 1) % 4 = k - 1
      OBVIOUS
    <3>2. PICK u : u = s \o t
      OBVIOUS
    <3>3. PICK e : e = sel
      OBVIOUS
    <3>4. PermuteDwords(u, e)[4 * m + k] =
            u[4 * e[((4 * m + k - 1) \div 4) + 1] + ((4 * m + k - 1) % 4) + 1]
      BY <3>1 DEF PermuteDwords
    <3>5. PermuteDwords(u, e)[4 * m + k] = u[4 * e[m + 1] + (k - 1) + 1]
      BY <3>1, <3>4
    <3>6. e[m + 1] \in Int
      <4>1. m + 1 \in 1 .. 8 /\ sel \in [1 .. 8 -> Int]
        OBVIOUS
      <4> HIDE DEF sel
      <4> QED BY <3>3, <4>1
    <3>7. 4 * e[m + 1] + (k - 1) + 1 = 4 * e[m + 1] + k
      BY <3>6
    <3> QED BY <3>2, <3>3, <3>5, <3>7
  <2>8. /\ sel[1] = 0 /\ sel[2] = 1 /\ sel[3] = 2
        /\ sel[4] = 4 /\ sel[5] = 5 /\ sel[6] = 6
    OBVIOUS
  <2> HIDE DEF y, sel
  <2>9. ASSUME NEW i \in 1 .. 24
        PROVE  SubSeq(y, 1, 24)[i] = IF i <= 12 THEN s[i] ELSE t[i - 12]
    <3>1. PICK m, k : m = (i - 1) \div 4 /\ k = ((i - 1) % 4) + 1
      OBVIOUS
    <3>2. m \in 0 .. 5 /\ k \in 1 .. 4 /\ i = 4 * m + k
      BY <3>1
    <3>3. SubSeq(y, 1, 24)[i] = y[i]
      <4>1. i \in 1 .. 24 - 1 + 1 /\ 1 + i - 1 = i
        OBVIOUS
      <4> QED BY <2>5, <4>1, CutAt
    <3>4. y[i] = (s \o t)[4 * sel[m + 1] + k]
      BY <2>7, <3>2
    <3>5. CASE i <= 12
      <4>1. m = 0 \/ m = 1 \/ m = 2
        BY <3>2, <3>5
      <4>2. sel[m + 1] = m
        BY <2>8, <4>1
      <4>3. i \in 1 .. Len(s) + Len(t) /\ i <= Len(s)
        BY <2>4, <3>5
      <4>4. (s \o t)[i] = s[i]
        BY <2>4, <4>3, ConcatAt
      <4> QED BY <3>2, <3>3, <3>4, <3>5, <4>2, <4>4
    <3>6. CASE ~(i <= 12)
      <4>1. m = 3 \/ m = 4 \/ m = 5
        BY <3>2, <3>6
      <4>2. sel[m + 1] = m + 1
        BY <2>8, <4>1
      <4>3. PICK n : n = i + 4
        OBVIOUS
      <4>4. n \in 1 .. Len(s) + Len(t) /\ ~(n <= Len(s)) /\ n - Len(s) = i - 12
            /\ 4 * (m + 1) + k = n
        BY <2>4, <3>2, <3>6, <4>3
      <4>5. (s \o t)[n] = t[n - Len(s)]
        BY <2>4, <4>4, ConcatAt
      <4> QED BY <3>3, <3>4, <3>6, <4>2, <4>4, <4>5
    <3> QED BY <3>5, <3>6
  <2>10. ASSUME NEW j \in 0 .. 7, NEW p \in 0 .. 2
         PROVE  SubSeq(y, 1, 24)[3 * j + p + 1] =
                  OctetOf(v[4 * j + 1], v[4 * j + 2], v[4 * j + 3], v[4 * j + 4], p)
    <3>1. PICK i : i = 3 * j + p + 1
      OBVIOUS
    <3>2. i \in 1 .. 24
      BY <3>1
    <3>3. CASE j \in 0 .. 3
      <4>1. i <= 12
        BY <3>1, <3>3
      <4>2. SubSeq(y, 1, 24)[i] = s[i]
        BY <2>9, <3>2, <4>1
      <4>3. s[3 * j + p + 1] = OctetOf(lo[4 * j + 1], lo[4 * j + 2], lo[4 * j + 3], lo[4 * j + 4], p)
        <5>1. j \in 0 .. 4 - 1
          BY <3>3
        <5> QED BY <2>4, <5>1 DEF BlockBytes
      <4>4. /\ lo[4 * j + 1] = v[4 * j + 1] /\ lo[4 * j + 2] = v[4 * j + 2]
            /\ lo[4 * j + 3] = v[4 * j + 3] /\ lo[4 * j + 4] = v[4 * j + 4]
        <5>1. 4 * j + 1 \in 1 .. 16 /\ 4 * j + 2 \in 1 .. 16 /\ 4 * j + 3 \in 1 .. 16
              /\ 4 * j + 4 \in 1 .. 16
          BY <3>3
        <5> QED BY <2>2, <5>1
      <4> QED BY <3>1, <4>2, <4>3, <4>4
    <3>4. CASE j \in 4 .. 7
      <4>1. PICK q : q = j - 4
        OBVIOUS
      <4>2. q \in 0 .. 4 - 1 /\ ~(i <= 12) /\ i - 12 = 3 * q + p + 1
        BY <3>1, <3>4, <4>1
      <4>3. SubSeq(y, 1, 24)[i] = t[3 * q + p + 1]
        BY <2>9, <3>2, <4>2
      <4>4. t[3 * q + p + 1] = OctetOf(hi[4 * q + 1], hi[4 * q + 2], hi[4 * q + 3], hi[4 * q + 4], p)
        BY <2>4, <4>2 DEF BlockBytes
      <4>5. /\ hi[4 * q + 1] = v[4 * j + 1] /\ hi[4 * q + 2] = v[4 * j + 2]
            /\ hi[4 * q + 3] = v[4 * j + 3] /\ hi[4 * q + 4] = v[4 * j + 4]
        <5>1. 4 * q + 1 \in 1 .. 16 /\ 4 * q + 2 \in 1 .. 16 /\ 4 * q + 3 \in 1 .. 16
              /\ 4 * q + 4 \in 1 .. 16
          BY <4>2
        <5>2. 16 + (4 * q + 1) = 4 * j + 1 /\ 16 + (4 * q + 2) = 4 * j + 2
              /\ 16 + (4 * q + 3) = 4 * j + 3 /\ 16 + (4 * q + 4) = 4 * j + 4
          BY <3>4, <4>1
        <5>3. /\ hi[4 * q + 1] = v[16 + (4 * q + 1)] /\ hi[4 * q + 2] = v[16 + (4 * q + 2)]
              /\ hi[4 * q + 3] = v[16 + (4 * q + 3)] /\ hi[4 * q + 4] = v[16 + (4 * q + 4)]
          BY <2>2, <5>1
        <5> QED BY <5>2, <5>3
      <4> QED BY <3>1, <4>3, <4>4, <4>5
    <3>5. j \in 0 .. 3 \/ j \in 4 .. 7
      OBVIOUS
    <3> QED BY <3>3, <3>4, <3>5
  <2>11. 0 .. 8 - 1 = 0 .. 7
    OBVIOUS
  <2> QED BY <2>6, <2>10, <2>11, Zenon DEF BlockBytes
<1> QED BY <1>1, <1>2, Zenon

\* Values of four letters.
FourValues(a, b, c, d) == a \in 0 .. 63 /\ b \in 0 .. 63 /\ c \in 0 .. 63 /\ d \in 0 .. 63

\* The bytes of NEON: a shift drops the bits that are in the byte before.
Vshl(w, n) == (w * 2^n) % 256

\* The three expressions are the three bytes of the four values.
LEMMA NeonOctets ==
  ASSUME NEW a, NEW b, NEW c, NEW d, FourValues(a, b, c, d)
  PROVE  /\ (Vshl(a, 2) | ShiftRight(b, 4)) = OctetOf(a, b, c, d, 0)
         /\ (Vshl(b, 4) | ShiftRight(c, 2)) = OctetOf(a, b, c, d, 1)
         /\ (Vshl(c, 6) | d) = OctetOf(a, b, c, d, 2)
<1> a \in 0 .. 63 /\ b \in 0 .. 63 /\ c \in 0 .. 63 /\ d \in 0 .. 63
  BY DEF FourValues
<1>1. PICK b1, b0, c1, c0 : /\ b1 = b \div 16 /\ b0 = b % 16
                            /\ c1 = c \div 4 /\ c0 = c % 4
  OBVIOUS
<1>2. b1 \in 0 .. 3 /\ b0 \in 0 .. 15 /\ b = 16 * b1 + b0
  BY <1>1
<1>3. c1 \in 0 .. 15 /\ c0 \in 0 .. 3 /\ c = 4 * c1 + c0
  BY <1>1
<1>4. /\ OctetOf(a, b, c, d, 0) = 4 * a + b1
      /\ OctetOf(a, b, c, d, 1) = 16 * b0 + c1
      /\ OctetOf(a, b, c, d, 2) = 64 * c0 + d
  BY <1>1 DEF OctetOf
<1>5. ShiftRight(b, 4) = b1 /\ ShiftRight(c, 2) = c1
  BY <1>1 DEF ShiftRight
<1>6. Vshl(a, 2) = 4 * a
  BY DEF Vshl
<1>7. Vshl(b, 4) = 16 * b0
  <2>1. b * 2^4 = 256 * b1 + 16 * b0
    BY <1>2
  <2> QED BY <1>2, <2>1 DEF Vshl
<1>8. Vshl(c, 6) = 64 * c0
  <2>1. c * 2^6 = 256 * c1 + 64 * c0
    BY <1>3
  <2> QED BY <1>3, <2>1 DEF Vshl
<1>9. (4 * a | b1) = 4 * a + b1 /\ (16 * b0 | c1) = 16 * b0 + c1
  BY <1>2, <1>3, Ors
<1>10. (64 * c0 | d) = 64 * c0 + d
  <2>1. PICK u : u = 64 * c0
    OBVIOUS
  <2>2. (u | d) = u + d
    BY <1>3, <2>1, OrOfEight
  <2> QED BY <2>1, <2>2
<1> QED BY <1>4, <1>5, <1>6, <1>7, <1>8, <1>9, <1>10

\* The block of NEON.
LEMMA NeonBytes ==
  ASSUME NEW v, \A i \in 1 .. 32 : v[i] \in 0 .. 63
  PROVE  BlockBytes(NeonDecode(v), v, 8)
<1> DEFINE at(i, k) == v[4 * (i - 1) + k]
           shl(w, n) == (w * 2^n) % 256
           byte(i, k) == CASE k = 1 -> shl(at(i, 1), 2) | ShiftRight(at(i, 2), 4)
                           [] k = 2 -> shl(at(i, 2), 4) | ShiftRight(at(i, 3), 2)
                           [] k = 3 -> shl(at(i, 3), 6) | at(i, 4)
           S == [i \in 1 .. 8 |-> [k \in 1 .. 3 |-> byte(i, k)]]
<1>1. NeonDecode(v) = Weave(3, S)
  BY DEF NeonDecode
<1>2. ASSUME NEW j \in 0 .. 7, NEW p \in 0 .. 2
      PROVE  Weave(3, S)[3 * j + p + 1] =
               OctetOf(v[4 * j + 1], v[4 * j + 2], v[4 * j + 3], v[4 * j + 4], p)
  <2>1. PICK a, b, c, d : /\ a = v[4 * j + 1] /\ b = v[4 * j + 2]
                          /\ c = v[4 * j + 3] /\ d = v[4 * j + 4]
    OBVIOUS
  <2>2. a \in 0 .. 63 /\ b \in 0 .. 63 /\ c \in 0 .. 63 /\ d \in 0 .. 63
    <3>1. 4 * j + 1 \in 1 .. 32 /\ 4 * j + 2 \in 1 .. 32 /\ 4 * j + 3 \in 1 .. 32
          /\ 4 * j + 4 \in 1 .. 32
      OBVIOUS
    <3> QED BY <2>1, <3>1
  <2>3. at(j + 1, 1) = a /\ at(j + 1, 2) = b /\ at(j + 1, 3) = c /\ at(j + 1, 4) = d
    <3>1. 4 * (j + 1 - 1) = 4 * j
      OBVIOUS
    <3> QED BY <2>1, <3>1
  <2> HIDE DEF at
  <2>4. byte(j + 1, p + 1) = OctetOf(a, b, c, d, p)
    <3>1. /\ (Vshl(a, 2) | ShiftRight(b, 4)) = OctetOf(a, b, c, d, 0)
          /\ (Vshl(b, 4) | ShiftRight(c, 2)) = OctetOf(a, b, c, d, 1)
          /\ (Vshl(c, 6) | d) = OctetOf(a, b, c, d, 2)
      <4>1. FourValues(a, b, c, d)
        BY <2>2 DEF FourValues
      <4> QED BY <4>1, NeonOctets
    <3>2. /\ byte(j + 1, 1) = (Vshl(a, 2) | ShiftRight(b, 4))
          /\ byte(j + 1, 2) = (Vshl(b, 4) | ShiftRight(c, 2))
          /\ byte(j + 1, 3) = (Vshl(c, 6) | d)
      BY <2>3 DEF Vshl
    <3> HIDE DEF byte
    <3>3. /\ byte(j + 1, 0 + 1) = byte(j + 1, 1) /\ byte(j + 1, 1 + 1) = byte(j + 1, 2)
          /\ byte(j + 1, 2 + 1) = byte(j + 1, 3)
      OBVIOUS
    <3>4. p = 0 \/ p = 1 \/ p = 2
      OBVIOUS
    <3>5. ASSUME p = 0 PROVE byte(j + 1, p + 1) = OctetOf(a, b, c, d, p)
      BY <3>1, <3>2, <3>3, <3>5, Zenon
    <3>6. ASSUME p = 1 PROVE byte(j + 1, p + 1) = OctetOf(a, b, c, d, p)
      BY <3>1, <3>2, <3>3, <3>6, Zenon
    <3>7. ASSUME p = 2 PROVE byte(j + 1, p + 1) = OctetOf(a, b, c, d, p)
      BY <3>1, <3>2, <3>3, <3>7, Zenon
    <3> HIDE DEF S
    <3> QED BY <3>4, <3>5, <3>6, <3>7, Zenon
  <2> HIDE DEF byte
  <2>5. Weave(3, S)[3 * j + p + 1] = S[j + 1][p + 1]
    <3>1. /\ 3 * j + p + 1 \in 1 .. 8 * 3 /\ (3 * j + p + 1 - 1) \div 3 = j
          /\ (3 * j + p + 1 - 1) % 3 = p
      OBVIOUS
    <3> HIDE DEF S
    <3> QED BY <3>1 DEF Weave
  <2>6. S[j + 1][p + 1] = byte(j + 1, p + 1)
    <3>1. j + 1 \in 1 .. 8 /\ p + 1 \in 1 .. 3
      OBVIOUS
    <3> QED BY <3>1
  <2> QED BY <2>1, <2>4, <2>5, <2>6, Zenon
<1> HIDE DEF S
<1>3. 0 .. 8 - 1 = 0 .. 7
  OBVIOUS
<1> QED BY <1>1, <1>2, <1>3, Zenon DEF BlockBytes

\* wasm32 joins the four values by shifts and disjunctions.
WasmShl(w, n) == (w % 2^(24 - n)) * 2^n
OddOf(a, c) == a + 65536 * c
EvenOf(b, d) == 256 * b + 16777216 * d
WasmJoins(odd, even) == (WasmShl(odd, 18) | ShiftRight(odd, 10))
                          | (WasmShl(even, 4) | ShiftRight(even, 24))

\* ... and they join as the multiplications of x86 do.
LEMMA WasmWord ==
  ASSUME NEW a, NEW b, NEW c, NEW d, FourValues(a, b, c, d)
  PROVE  WasmJoins(OddOf(a, c), EvenOf(b, d)) = SextetsWord(a, b, c, d)
<1> a \in 0 .. 63 /\ b \in 0 .. 63 /\ c \in 0 .. 63 /\ d \in 0 .. 63
  BY DEF FourValues
<1>0. PICK odd, even : odd = OddOf(a, c) /\ even = EvenOf(b, d)
  OBVIOUS
<1>15. odd = a + 65536 * c /\ even = 256 * b + 16777216 * d
  BY <1>0 DEF OddOf, EvenOf
<1>1. PICK b1, b0 : b1 = b \div 16 /\ b0 = b % 16
  OBVIOUS
<1>2. b1 \in 0 .. 3 /\ b0 \in 0 .. 15 /\ b = 16 * b1 + b0
  BY <1>1
<1>3. PICK p, q, r, s, t : /\ p = 4 * a /\ q = 64 * c /\ r = 4096 * b0
                           /\ s = 4096 * b0 + d /\ t = 4 * a + b1
  OBVIOUS
<1>4. Short(0) /\ Short(p) /\ Short(q) /\ Short(r) /\ Short(s) /\ Short(b1) /\ Short(d) /\ Short(t)
  BY <1>2, <1>3 DEF Short
<1>5. WasmShl(odd, 18) = 0 + 65536 * p
  <2>1. odd = 64 * (1024 * c) + a
    BY <1>15
  <2>2. odd % 64 = a
    BY <2>1
  <2>3. WasmShl(odd, 18) = (odd % 64) * 262144
    BY DEF WasmShl
  <2> QED BY <1>3, <2>2, <2>3
<1>6. ShiftRight(odd, 10) = q + 65536 * 0
  <2>1. odd = 1024 * (64 * c) + a
    BY <1>15
  <2>2. odd \div 1024 = 64 * c
    BY <2>1
  <2> QED BY <1>3, <2>2 DEF ShiftRight
<1>7. WasmShl(even, 4) = r + 65536 * b1
  <2>1. even = 1048576 * (16 * d) + 256 * b
    BY <1>15
  <2>2. even % 1048576 = 256 * b
    BY <2>1
  <2>3. WasmShl(even, 4) = (even % 1048576) * 16
    BY DEF WasmShl
  <2> QED BY <1>2, <1>3, <2>2, <2>3
<1>8. ShiftRight(even, 24) = d + 65536 * 0
  <2>1. even = 16777216 * d + 256 * b /\ 256 * b < 16777216 /\ 256 * b >= 0
    BY <1>15
  <2>2. even \div 16777216 = d
    BY <2>1
  <2> QED BY <2>2 DEF ShiftRight
<1>9. PICK x, y, z, w : /\ x = WasmShl(odd, 18) /\ y = ShiftRight(odd, 10)
                        /\ z = WasmShl(even, 4) /\ w = ShiftRight(even, 24)
  OBVIOUS
<1>10. (x | y) = q + 65536 * p
  <2>1. (x | y) = (0 | q) + 65536 * (p | 0)
    <3>1. x = 0 + 65536 * p /\ y = q + 65536 * 0
      BY <1>5, <1>6, <1>9
    <3> QED BY <1>4, <3>1, LongOrs
  <2>2. (0 | q) = q /\ (p | 0) = p
    BY <1>4, Ors
  <2> QED BY <2>1, <2>2
<1>11. (z | w) = s + 65536 * b1
  <2>1. (z | w) = (r | d) + 65536 * (b1 | 0)
    <3>1. z = r + 65536 * b1 /\ w = d + 65536 * 0
      BY <1>7, <1>8, <1>9
    <3> QED BY <1>4, <3>1, LongOrs
  <2>2. (b1 | 0) = b1
    BY <1>4, Ors
  <2>3. (r | d) = s
    <3>1. (r | d) = r + d
      BY <1>2, <1>3, OrOfSixteen
    <3> QED BY <1>2, <1>3, <3>1
  <2> QED BY <2>1, <2>2, <2>3
<1>12. PICK m, n : m = (x | y) /\ n = (z | w)
  OBVIOUS
<1>13. (m | n) = s + q + 65536 * t
  <2>1. (m | n) = (q | s) + 65536 * (p | b1)
    <3>1. m = q + 65536 * p /\ n = s + 65536 * b1
      BY <1>10, <1>11, <1>12
    <3> QED BY <1>4, <3>1, LongOrs
  <2>2. (p | b1) = t
    <3>1. \A u \in 0 .. 63, v \in 0 .. 3 : (4 * u | v) = 4 * u + v
      BY Ors
    <3> QED BY <1>2, <1>3, <3>1
  <2>3. (q | s) = q + s
    <3>1. q \in Nat /\ q < 4096 /\ q % 64 = 0 /\ s \in Nat /\ s < 65536 /\ s % 4096 < 64
      BY <1>2, <1>3
    <3> QED BY <3>1, OrInGap
  <2>4. q + s = s + q
    BY <1>2, <1>3
  <2> QED BY <2>1, <2>2, <2>3, <2>4
<1>14. s + q + 65536 * t = SextetsWord(a, b, c, d)
  BY <1>2, <1>3 DEF SextetsWord
<1> QED BY <1>0, <1>9, <1>12, <1>13, <1>14 DEF WasmJoins

\* The block of wasm32.
LEMMA WasmBytes ==
  ASSUME NEW v, \A i \in 1 .. 16 : v[i] \in 0 .. 63
  PROVE  BlockBytes(MergeBits(v), v, 4)
<1> DEFINE at(i, k) == v[4 * i + k]
           shl(w, n) == (w % 2^(24 - n)) * 2^n
           odd(i)  == (at(i, 1) & \h3F) + 2^16 * (at(i, 3) & \h3F)
           even(i) == 2^8 * (at(i, 2) & \h3F) + 2^24 * (at(i, 4) & \h3F)
           merged(i) == (shl(odd(i), 18) | ShiftRight(odd(i), 10))
                          | (shl(even(i), 4) | ShiftRight(even(i), 24))
           f == [i \in 0 .. 3 |-> merged(i)]
           y == Shuffle(FromDwords(f), Triples)
<1>1. MergeBits(v) = SubSeq(y, 1, 12)
  BY DEF MergeBits
<1>2. ASSUME NEW j \in 0 .. 3
      PROVE  f[j] = SextetsWord(v[4 * j + 1], v[4 * j + 2], v[4 * j + 3], v[4 * j + 4])
  <2>1. PICK a, b, c, d : /\ a = v[4 * j + 1] /\ b = v[4 * j + 2]
                          /\ c = v[4 * j + 3] /\ d = v[4 * j + 4]
    OBVIOUS
  <2>2. a \in 0 .. 63 /\ b \in 0 .. 63 /\ c \in 0 .. 63 /\ d \in 0 .. 63
    <3>1. 4 * j + 1 \in 1 .. 16 /\ 4 * j + 2 \in 1 .. 16 /\ 4 * j + 3 \in 1 .. 16
          /\ 4 * j + 4 \in 1 .. 16
      OBVIOUS
    <3> QED BY <2>1, <3>1
  <2>3. ASSUME NEW u \in 0 .. 63 PROVE (u & \h3F) = u
    <3>1. Short(u) /\ u % 64 = u
      BY DEF Short
    <3>2. (u & 63) = u % 64
      BY <3>1, Masks
    <3> QED BY <3>1, <3>2
  <2>4. odd(j) = a + 65536 * c
    <3>1. (a & \h3F) = a /\ (c & \h3F) = c /\ at(j, 1) = a /\ at(j, 3) = c /\ 2^16 = 65536
      BY <2>1, <2>2, <2>3
    <3> HIDE DEF at
    <3> QED BY <3>1
  <2>5. even(j) = 256 * b + 16777216 * d
    <3>1. (b & \h3F) = b /\ (d & \h3F) = d /\ at(j, 2) = b /\ at(j, 4) = d
          /\ 2^8 = 256 /\ 2^24 = 16777216
      BY <2>1, <2>2, <2>3
    <3> HIDE DEF at
    <3> QED BY <3>1
  <2>6. PICK o, e : o = odd(j) /\ e = even(j)
    OBVIOUS
  <2> HIDE DEF odd, even
  <2>7. merged(j) = WasmJoins(o, e)
    BY <2>6 DEF WasmJoins, WasmShl
  <2> HIDE DEF merged
  <2>8. merged(j) = SextetsWord(a, b, c, d)
    <3>1. o = OddOf(a, c) /\ e = EvenOf(b, d)
      BY <2>4, <2>5, <2>6, SMTT(40) DEF OddOf, EvenOf
    <3>2. WasmJoins(OddOf(a, c), EvenOf(b, d)) = SextetsWord(a, b, c, d)
      <4>1. FourValues(a, b, c, d)
        BY <2>2 DEF FourValues
      <4> QED BY <4>1, WasmWord
    <3> QED BY <2>7, <3>1, <3>2
  <2>9. f[j] = merged(j)
    OBVIOUS
  <2> HIDE DEF f
  <2> QED BY <2>1, <2>8, <2>9
<1> HIDE DEF f
<1>3. BlockBytes(y, v, 4)
  BY <1>2, TriplesOfDwords
<1>4. IsSeq(y) /\ Len(y) = 16
  <2>1. DOMAIN Triples = 1 .. 16
    BY DEF Triples
  <2>2. y = [i \in 1 .. 16 |-> y[i]]
    BY <2>1, Zenon DEF Shuffle
  <2> HIDE DEF y
  <2> QED BY <2>2, FunctionIsSeq
<1> HIDE DEF y
<1> QED BY <1>1, <1>3, <1>4, CutBytes

-----------------------------------------------------------------------------
(* The letters of a text, and the reference's bits                           *)

\* What is shifted left by six has no bit in common with six bits.
LEMMA OrOfShift ==
  ASSUME NEW u \in Nat, u < 65536, u % 64 = 0, NEW y \in 0 .. 63
  PROVE  (u | y) = u + y
<1>0. 0 \in Digit
  BY DEF Digit
<1>1. PICK c, c0, c1, c2, y0, y1 :
        /\ c = u \div 64 /\ c0 = c % 4 /\ c1 = (c \div 4) % 16 /\ c2 = c \div 64
        /\ y0 = y % 16 /\ y1 = y \div 16
  OBVIOUS
<1>2. PICK a : a = 4 * c0
  OBVIOUS
<1>3. c0 \in 0 .. 3 /\ c1 \in 0 .. 15 /\ c2 \in 0 .. 15 /\ a \in 0 .. 15
      /\ u = 64 * c0 + 256 * c1 + 4096 * c2 /\ y0 \in 0 .. 15 /\ y1 \in 0 .. 3 /\ y = 16 * y1 + y0
  <2>1. c \in Nat /\ c < 1024 /\ u = 64 * c
    BY <1>1
  <2>2. PICK d : d = c \div 4
    OBVIOUS
  <2>3. d \in Nat /\ d < 256 /\ c = 4 * d + c0 /\ c0 \in 0 .. 3
    BY <1>1, <2>1, <2>2
  <2>4. c2 = d \div 16
    BY <1>1, <2>1, <2>2
  <2>5. c1 \in 0 .. 15 /\ c2 \in 0 .. 15 /\ d = 16 * c2 + c1
    BY <1>1, <2>2, <2>3, <2>4
  <2> QED BY <1>1, <1>2, <2>1, <2>3, <2>5
<1>4. c1 \in Digit /\ c2 \in Digit /\ a \in Digit /\ y0 \in Digit /\ y1 \in Digit
  BY <1>3 DEF Digit
<1> DEFINE f == FourDigits(0, a, c1, c2)
           g == FourDigits(y0, y1, 0, 0)
<1>5. /\ f \in Digits /\ f[0] = 0 /\ f[1] = a /\ f[2] = c1 /\ f[3] = c2
      /\ Value(f) = 0 + 16 * a + 256 * c1 + 4096 * c2
  <2>1. a \in Digit /\ c1 \in Digit /\ c2 \in Digit
    BY <1>4
  <2> QED BY <1>0, <2>1, FourDigitsAre
<1>6. /\ g \in Digits /\ g[0] = y0 /\ g[1] = y1 /\ g[2] = 0 /\ g[3] = 0
      /\ Value(g) = y0 + 16 * y1 + 256 * 0 + 4096 * 0
  <2>1. y0 \in Digit /\ y1 \in Digit
    BY <1>4
  <2> QED BY <1>0, <2>1, FourDigitsAre
<1> HIDE DEF f, g
<1>7. Value(f) = u /\ Value(g) = y
  BY <1>2, <1>3, <1>5, <1>6
<1>8. OrTable[a][y1] = a + y1
  BY <1>2, <1>3, OrDigit, <1>0 DEF Digit
<1>9. OrTable[0][y0] = y0 /\ OrTable[c1][0] = c1 /\ OrTable[c2][0] = c2
  BY <1>4, OrDigit
<1>10. (Value(f) | Value(g)) = y0 + 16 * (a + y1) + 256 * c1 + 4096 * c2
  BY <1>5, <1>6, <1>8, <1>9, OnDigits
<1>11. y0 + 16 * (a + y1) + 256 * c1 + 4096 * c2 = u + y
  BY <1>2, <1>3
<1> QED BY <1>7, <1>10, <1>11

\* The accumulator keeps its last ten bits.
LEMMA AccumulatesSix ==
  ASSUME NEW acc \in Nat, NEW u, u = ShiftLeft(acc, 6)
  PROVE  u = 64 * (acc % 1024) /\ u \in Nat /\ u < 65536 /\ u % 64 = 0
<1>1. u = (acc * 64) % 65536
  BY DEF ShiftLeft, Word16
<1>2. u = 64 * (acc % 1024)
  BY <1>1
<1> QED BY <1>2

\* The bits left over at the end: none, two or four.
LEMMA LowMasks ==
  ASSUME NEW x, Short(x)
  PROVE  (x & 0) = 0 /\ (x & 3) = x % 4 /\ (x & 15) = x % 16
<1>1. PICK d \in Digits : x = Value(d)
  BY HasDigits
<1> DEFINE two == FourDigits(3, 0, 0, 0)
           four == FourDigits(15, 0, 0, 0)
<1>2. 0 \in Digit /\ 3 \in Digit /\ 15 \in Digit
  BY DEF Digit
<1>3. /\ two \in Digits /\ Value(two) = 3
      /\ two[0] = 3 /\ two[1] = 0 /\ two[2] = 0 /\ two[3] = 0
  BY <1>2, FourDigitsAre
<1>4. /\ four \in Digits /\ Value(four) = 15
      /\ four[0] = 15 /\ four[1] = 0 /\ four[2] = 0 /\ four[3] = 0
  BY <1>2, FourDigitsAre
<1> HIDE DEF two, four
<1> DEFINE a == d[0]
           b == d[1]
           c == d[2]
           e == d[3]
<1>5. a \in Digit /\ b \in Digit /\ c \in Digit /\ e \in Digit
  BY DEF Digits
<1>6. x = a + 16 * b + 256 * c + 4096 * e
  BY <1>1 DEF Value
<1>7. /\ AndTable[a][3] = a % 4 /\ AndTable[a][15] = a /\ AndTable[b][0] = 0
      /\ AndTable[c][0] = 0 /\ AndTable[e][0] = 0
  BY <1>5, AndDigit
<1>8. (x & 3) = (a % 4) + 16 * 0 + 256 * 0 + 4096 * 0
  BY <1>1, <1>3, <1>7, OnDigits
<1>9. (x & 15) = a + 16 * 0 + 256 * 0 + 4096 * 0
  BY <1>1, <1>4, <1>7, OnDigits
<1> HIDE DEF a, b, c, e
<1>10. a % 4 = x % 4 /\ a = x % 16
  BY <1>5, <1>6 DEF Digit
<1>11. (x & 0) = 0
  BY Masks
<1>12. a \in 0 .. 15 /\ a % 4 \in 0 .. 3
  BY <1>5 DEF Digit
<1> QED BY <1>8, <1>9, <1>10, <1>11, <1>12

-----------------------------------------------------------------------------
(* The bytes of the reference                                                *)

\* The value of the letter at i, and the zeros past the end of the text.
SextetIn(s, i) ==
  IF i <= Len(s) /\ CharValue(s[i]) # Invalid THEN CharValue(s[i]) ELSE 0

\* Byte p of four q of a text.
OctetAt(s, q, p) ==
  OctetOf(SextetIn(s, 4 * q + 1), SextetIn(s, 4 * q + 2), SextetIn(s, 4 * q + 3),
          SextetIn(s, 4 * q + 4), p)

\* They are values, and bytes.
LEMMA SextetsIn ==
  ASSUME NEW s \in Seq(Byte)
  PROVE  /\ \A i \in Nat \ {0} : SextetIn(s, i) \in 0 .. 63
         /\ \A q \in Nat, p \in 0 .. 2 : OctetAt(s, q, p) \in Byte
<1>1. ASSUME NEW i \in Nat \ {0} PROVE SextetIn(s, i) \in 0 .. 63
  <2>1. CASE i <= Len(s) /\ CharValue(s[i]) # Invalid
    <3>1. i \in 1 .. Len(s)
      BY <2>1
    <3>2. s[i] \in Byte
      BY <3>1
    <3>3. CharValue(s[i]) \in 0 .. 63
      BY <2>1, <3>2, CharValueIs
    <3> QED BY <2>1, <3>3 DEF SextetIn
  <2>2. CASE ~(i <= Len(s) /\ CharValue(s[i]) # Invalid)
    BY <2>2 DEF SextetIn
  <2> QED BY <2>1, <2>2
<1>2. ASSUME NEW q \in Nat, NEW p \in 0 .. 2 PROVE OctetAt(s, q, p) \in Byte
  <2>1. 4 * q + 1 \in Nat \ {0} /\ 4 * q + 2 \in Nat \ {0} /\ 4 * q + 3 \in Nat \ {0}
        /\ 4 * q + 4 \in Nat \ {0}
    OBVIOUS
  <2>2. /\ SextetIn(s, 4 * q + 1) \in 0 .. 63 /\ SextetIn(s, 4 * q + 2) \in 0 .. 63
        /\ SextetIn(s, 4 * q + 3) \in 0 .. 63 /\ SextetIn(s, 4 * q + 4) \in 0 .. 63
    BY <1>1, <2>1
  <2> QED BY <2>2, OctetsAre, Zenon DEF OctetAt
<1> QED BY <1>1, <1>2

\* The parts of a value of six bits, from its bits.
LEMMA SextetParts ==
  ASSUME NEW a \in 0 .. 63
  PROVE  /\ \A n \in 0 .. 7 : BitOf(a, n) \in 0 .. 1
         /\ a = 32 * BitOf(a, 5) + 16 * BitOf(a, 4) + 8 * BitOf(a, 3)
                  + 4 * BitOf(a, 2) + 2 * BitOf(a, 1) + BitOf(a, 0)
         /\ a \div 16 = 2 * BitOf(a, 5) + BitOf(a, 4)
         /\ a % 16 = 8 * BitOf(a, 3) + 4 * BitOf(a, 2) + 2 * BitOf(a, 1) + BitOf(a, 0)
         /\ a \div 4 = 8 * BitOf(a, 5) + 4 * BitOf(a, 4) + 2 * BitOf(a, 3) + BitOf(a, 2)
         /\ a % 4 = 2 * BitOf(a, 1) + BitOf(a, 0)
<1>1. a \in Byte
  BY DEF Byte
<1>2. PICK b : b = [n \in 0 .. 7 |-> BitOf(a, n)]
  OBVIOUS
<1>3. \A n \in 0 .. 7 : BitOf(a, n) = b[n]
  BY <1>2
<1>4. /\ BitOf(a, 0) = b[0] /\ BitOf(a, 1) = b[1] /\ BitOf(a, 2) = b[2] /\ BitOf(a, 3) = b[3]
      /\ BitOf(a, 4) = b[4] /\ BitOf(a, 5) = b[5] /\ BitOf(a, 6) = b[6] /\ BitOf(a, 7) = b[7]
  BY <1>3
<1>5. /\ \A n \in 0 .. 7 : BitOf(a, n) \in 0 .. 1
      /\ a \div 4 = 32 * b[7] + 16 * b[6] + 8 * b[5] + 4 * b[4] + 2 * b[3] + b[2]
      /\ a % 4 = 2 * b[1] + b[0]
      /\ a \div 16 = 8 * b[7] + 4 * b[6] + 2 * b[5] + b[4]
      /\ a % 16 = 8 * b[3] + 4 * b[2] + 2 * b[1] + b[0]
      /\ a \div 64 = 2 * b[7] + b[6]
      /\ a % 64 = 32 * b[5] + 16 * b[4] + 8 * b[3] + 4 * b[2] + 2 * b[1] + b[0]
  BY <1>1, <1>4, ByteBits, ZenonT(40)
<1>6. a \div 64 = 0 /\ a % 64 = a
  OBVIOUS
<1>7. b[7] \in 0 .. 1 /\ b[6] \in 0 .. 1
  BY <1>4, <1>5
<1>8. b[7] = 0 /\ b[6] = 0
  BY <1>5, <1>6, <1>7
<1>9. b[5] \in Int /\ b[4] \in Int /\ b[3] \in Int /\ b[2] \in Int
  <2>1. \A n \in 0 .. 7 : b[n] \in 0 .. 1
    BY <1>3, <1>5
  <2> QED BY <2>1
<1>10. /\ a \div 16 = 2 * b[5] + b[4]
       /\ a \div 4 = 8 * b[5] + 4 * b[4] + 2 * b[3] + b[2]
  BY <1>5, <1>8, <1>9
<1> QED BY <1>4, <1>5, <1>6, <1>10

\* Eight bits, the highest first, collected one by one.
Gathers(g, b) == g = [k \in 0 .. 8 |-> IF k = 0 THEN 0 ELSE 2 * g[k - 1] + b[k - 1]]

\* ... there is one such collection, and it ends with the byte.
LEMMA EightBits ==
  ASSUME NEW b, \A k \in 0 .. 7 : b[k] \in 0 .. 1
  PROVE  /\ \E g : Gathers(g, b)
         /\ \A g : Gathers(g, b) =>
              g[8] = 128 * b[0] + 64 * b[1] + 32 * b[2] + 16 * b[3] + 8 * b[4]
                       + 4 * b[5] + 2 * b[6] + b[7]
<1>1. /\ b[0] \in 0 .. 1 /\ b[1] \in 0 .. 1 /\ b[2] \in 0 .. 1 /\ b[3] \in 0 .. 1
      /\ b[4] \in 0 .. 1 /\ b[5] \in 0 .. 1 /\ b[6] \in 0 .. 1 /\ b[7] \in 0 .. 1
  OBVIOUS
<1>2. \E g : Gathers(g, b)
  <2> DEFINE s1 == b[0]
             s2 == 2 * s1 + b[1]
             s3 == 2 * s2 + b[2]
             s4 == 2 * s3 + b[3]
             s5 == 2 * s4 + b[4]
             s6 == 2 * s5 + b[5]
             s7 == 2 * s6 + b[6]
             s8 == 2 * s7 + b[7]
             g == [k \in 0 .. 8 |-> CASE k = 0 -> 0 [] k = 1 -> s1 [] k = 2 -> s2 [] k = 3 -> s3
                                      [] k = 4 -> s4 [] k = 5 -> s5 [] k = 6 -> s6 [] k = 7 -> s7
                                      [] k = 8 -> s8]
  <2>1. s1 = 2 * 0 + b[0] /\ s2 = 2 * s1 + b[1] /\ s3 = 2 * s2 + b[2] /\ s4 = 2 * s3 + b[3]
        /\ s5 = 2 * s4 + b[4] /\ s6 = 2 * s5 + b[5] /\ s7 = 2 * s6 + b[6] /\ s8 = 2 * s7 + b[7]
    BY <1>1
  <2> HIDE DEF s1, s2, s3, s4, s5, s6, s7, s8
  <2>2. /\ g[0] = 0 /\ g[1] = s1 /\ g[2] = s2 /\ g[3] = s3
        /\ g[4] = s4 /\ g[5] = s5 /\ g[6] = s6 /\ g[7] = s7 /\ g[8] = s8
    OBVIOUS
  <2>3. g = [k \in 0 .. 8 |-> g[k]]
    OBVIOUS
  <2> HIDE DEF g
  <2>4. \A k \in 0 .. 8 : g[k] = IF k = 0 THEN 0 ELSE 2 * g[k - 1] + b[k - 1]
    <3> SUFFICES ASSUME NEW k \in 0 .. 8
                 PROVE  g[k] = IF k = 0 THEN 0 ELSE 2 * g[k - 1] + b[k - 1]
      OBVIOUS
    <3>1. k = 0 \/ k = 1 \/ k = 2 \/ k = 3 \/ k = 4 \/ k = 5 \/ k = 6 \/ k = 7 \/ k = 8
      OBVIOUS
    <3> QED BY <2>1, <2>2, <3>1
  <2>5. Gathers(g, b)
    BY <2>3, <2>4 DEF Gathers
  <2> QED BY <2>5
<1>3. ASSUME NEW g, Gathers(g, b)
      PROVE  g[8] = 128 * b[0] + 64 * b[1] + 32 * b[2] + 16 * b[3] + 8 * b[4]
                      + 4 * b[5] + 2 * b[6] + b[7]
  <2>1. \A k \in 0 .. 8 : g[k] = IF k = 0 THEN 0 ELSE 2 * g[k - 1] + b[k - 1]
    BY <1>3 DEF Gathers
  <2>2. /\ g[0] = 0 /\ g[1] = 2 * g[0] + b[0] /\ g[2] = 2 * g[1] + b[1]
        /\ g[3] = 2 * g[2] + b[2] /\ g[4] = 2 * g[3] + b[3]
        /\ g[5] = 2 * g[4] + b[4] /\ g[6] = 2 * g[5] + b[5]
        /\ g[7] = 2 * g[6] + b[6] /\ g[8] = 2 * g[7] + b[7]
    BY <2>1
  <2> QED BY <1>1, <2>2
<1> QED BY <1>2, <1>3

\* Bit j of a sequence of values, the highest of a value first.
ValueBit(x, j) ==
  IF j >= 6 * Len(x) THEN 0 ELSE (x[(j \div 6) + 1] \div 2^(6 - 1 - (j % 6))) % 2

\* ... which is a bit of some value.
LEMMA ValueBitIs ==
  ASSUME NEW x \in Seq(Byte), NEW u \in Nat, NEW v \in 0 .. 5, NEW j, j = 6 * u + v
  PROVE  ValueBit(x, j) = BitOf(ByteAt(x, u + 1), 5 - v)
<1>1. j \div 6 = u /\ j % 6 = v /\ j \in Nat /\ 6 - 1 - v = 5 - v
  OBVIOUS
<1>2. Len(x) \in Nat /\ (j >= 6 * Len(x) <=> ~(u + 1 <= Len(x)))
  OBVIOUS
<1>3. CASE u + 1 <= Len(x)
  BY <1>1, <1>2, <1>3, Zenon DEF ValueBit, BitOf, ByteAt
<1>4. CASE ~(u + 1 <= Len(x))
  <2>1. ValueBit(x, j) = 0 /\ ByteAt(x, u + 1) = 0
    BY <1>2, <1>4 DEF ValueBit, ByteAt
  <2>2. BitOf(0, 5 - v) = 0
    <3>1. v = 0 \/ v = 1 \/ v = 2 \/ v = 3 \/ v = 4 \/ v = 5
      OBVIOUS
    <3>2. /\ BitOf(0, 0) = 0 /\ BitOf(0, 1) = 0 /\ BitOf(0, 2) = 0 /\ BitOf(0, 3) = 0
          /\ BitOf(0, 4) = 0 /\ BitOf(0, 5) = 0
      BY DEF BitOf
    <3> QED BY <3>1, <3>2
  <2> QED BY <2>1, <2>2
<1> QED BY <1>3, <1>4

\* The eight bits of byte p of four q.
LEMMA OctetBits ==
  ASSUME NEW x \in Seq(Byte), NEW q \in Nat
  PROVE  LET A == ByteAt(x, 4 * q + 1)
             B == ByteAt(x, 4 * q + 2)
             C == ByteAt(x, 4 * q + 3)
             D == ByteAt(x, 4 * q + 4)
         IN /\ \A k \in 0 .. 5 : ValueBit(x, 8 * (3 * q + 0) + k) = BitOf(A, 5 - k)
            /\ \A k \in 6 .. 7 : ValueBit(x, 8 * (3 * q + 0) + k) = BitOf(B, 11 - k)
            /\ \A k \in 0 .. 3 : ValueBit(x, 8 * (3 * q + 1) + k) = BitOf(B, 3 - k)
            /\ \A k \in 4 .. 7 : ValueBit(x, 8 * (3 * q + 1) + k) = BitOf(C, 9 - k)
            /\ \A k \in 0 .. 1 : ValueBit(x, 8 * (3 * q + 2) + k) = BitOf(C, 1 - k)
            /\ \A k \in 2 .. 7 : ValueBit(x, 8 * (3 * q + 2) + k) = BitOf(D, 7 - k)
<1> DEFINE A == ByteAt(x, 4 * q + 1)
           B == ByteAt(x, 4 * q + 2)
           C == ByteAt(x, 4 * q + 3)
           D == ByteAt(x, 4 * q + 4)
<1>0. 4 * q \in Nat /\ 4 * q + 1 \in Nat /\ 4 * q + 2 \in Nat /\ 4 * q + 3 \in Nat
      /\ (4 * q + 1) + 1 = 4 * q + 2 /\ (4 * q + 2) + 1 = 4 * q + 3 /\ (4 * q + 3) + 1 = 4 * q + 4
  OBVIOUS
<1>1. ASSUME NEW j, NEW v \in 0 .. 5, j = 24 * q + v
      PROVE  ValueBit(x, j) = BitOf(A, 5 - v)
  <2>1. j = 6 * (4 * q) + v
    BY <1>1
  <2> QED BY <1>0, <2>1, ValueBitIs
<1>2. ASSUME NEW j, NEW v \in 0 .. 5, j = 24 * q + 6 + v
      PROVE  ValueBit(x, j) = BitOf(B, 5 - v)
  <2>1. j = 6 * (4 * q + 1) + v
    BY <1>2
  <2>2. ValueBit(x, j) = BitOf(ByteAt(x, (4 * q + 1) + 1), 5 - v)
    BY <1>0, <2>1, ValueBitIs
  <2> QED BY <1>0, <2>2
<1>3. ASSUME NEW j, NEW v \in 0 .. 5, j = 24 * q + 12 + v
      PROVE  ValueBit(x, j) = BitOf(C, 5 - v)
  <2>1. j = 6 * (4 * q + 2) + v
    BY <1>3
  <2>2. ValueBit(x, j) = BitOf(ByteAt(x, (4 * q + 2) + 1), 5 - v)
    BY <1>0, <2>1, ValueBitIs
  <2> QED BY <1>0, <2>2
<1>4. ASSUME NEW j, NEW v \in 0 .. 5, j = 24 * q + 18 + v
      PROVE  ValueBit(x, j) = BitOf(D, 5 - v)
  <2>1. j = 6 * (4 * q + 3) + v
    BY <1>4
  <2>2. ValueBit(x, j) = BitOf(ByteAt(x, (4 * q + 3) + 1), 5 - v)
    BY <1>0, <2>1, ValueBitIs, ZenonT(40)
  <2> QED BY <1>0, <2>2
<1> HIDE DEF A, B, C, D
<1>5. ASSUME NEW k \in 0 .. 5 PROVE ValueBit(x, 8 * (3 * q + 0) + k) = BitOf(A, 5 - k)
  <2>1. 8 * (3 * q + 0) + k = 24 * q + k
    OBVIOUS
  <2> QED BY <1>1, <2>1
<1>6. ASSUME NEW k \in 6 .. 7 PROVE ValueBit(x, 8 * (3 * q + 0) + k) = BitOf(B, 11 - k)
  <2>1. k - 6 \in 0 .. 5 /\ 8 * (3 * q + 0) + k = 24 * q + 6 + (k - 6) /\ 5 - (k - 6) = 11 - k
    OBVIOUS
  <2>2. ValueBit(x, 8 * (3 * q + 0) + k) = BitOf(B, 5 - (k - 6))
    BY <1>2, <2>1
  <2> QED BY <2>1, <2>2
<1>7. ASSUME NEW k \in 0 .. 3 PROVE ValueBit(x, 8 * (3 * q + 1) + k) = BitOf(B, 3 - k)
  <2>1. k + 2 \in 0 .. 5 /\ 8 * (3 * q + 1) + k = 24 * q + 6 + (k + 2) /\ 5 - (k + 2) = 3 - k
    OBVIOUS
  <2>2. ValueBit(x, 8 * (3 * q + 1) + k) = BitOf(B, 5 - (k + 2))
    BY <1>2, <2>1
  <2> QED BY <2>1, <2>2
<1>8. ASSUME NEW k \in 4 .. 7 PROVE ValueBit(x, 8 * (3 * q + 1) + k) = BitOf(C, 9 - k)
  <2>1. k - 4 \in 0 .. 5 /\ 8 * (3 * q + 1) + k = 24 * q + 12 + (k - 4) /\ 5 - (k - 4) = 9 - k
    OBVIOUS
  <2>2. ValueBit(x, 8 * (3 * q + 1) + k) = BitOf(C, 5 - (k - 4))
    BY <1>3, <2>1
  <2> QED BY <2>1, <2>2
<1>9. ASSUME NEW k \in 0 .. 1 PROVE ValueBit(x, 8 * (3 * q + 2) + k) = BitOf(C, 1 - k)
  <2>1. k + 4 \in 0 .. 5 /\ 8 * (3 * q + 2) + k = 24 * q + 12 + (k + 4) /\ 5 - (k + 4) = 1 - k
    OBVIOUS
  <2>2. ValueBit(x, 8 * (3 * q + 2) + k) = BitOf(C, 5 - (k + 4))
    BY <1>3, <2>1
  <2> QED BY <2>1, <2>2
<1>10. ASSUME NEW k \in 2 .. 7 PROVE ValueBit(x, 8 * (3 * q + 2) + k) = BitOf(D, 7 - k)
  <2>1. k - 2 \in 0 .. 5 /\ 8 * (3 * q + 2) + k = 24 * q + 18 + (k - 2) /\ 5 - (k - 2) = 7 - k
    OBVIOUS
  <2>2. ValueBit(x, 8 * (3 * q + 2) + k) = BitOf(D, 5 - (k - 2))
    BY <1>4, <2>1
  <2> QED BY <2>1, <2>2
<1> QED BY <1>5, <1>6, <1>7, <1>8, <1>9, <1>10 DEF A, B, C, D

\* Eight bits, as six and two, as four and four or as two and six.
LEMMA SumOfEight ==
  ASSUME NEW b, b[0] \in Int, b[1] \in Int, b[2] \in Int, b[3] \in Int,
                b[4] \in Int, b[5] \in Int, b[6] \in Int, b[7] \in Int,
         NEW w, w = 128 * b[0] + 64 * b[1] + 32 * b[2] + 16 * b[3] + 8 * b[4]
                      + 4 * b[5] + 2 * b[6] + b[7]
  PROVE  /\ w = 4 * (32 * b[0] + 16 * b[1] + 8 * b[2] + 4 * b[3] + 2 * b[4] + b[5])
                  + (2 * b[6] + b[7])
         /\ w = 16 * (8 * b[0] + 4 * b[1] + 2 * b[2] + b[3])
                  + (8 * b[4] + 4 * b[5] + 2 * b[6] + b[7])
         /\ w = 64 * (2 * b[0] + b[1])
                  + (32 * b[2] + 16 * b[3] + 8 * b[4] + 4 * b[5] + 2 * b[6] + b[7])
OBVIOUS

\* Values of six bits, and the zeros past their end.
SixBitValues(x) == x \in Seq(Byte) /\ \A i \in Nat \ {0} : ByteAt(x, i) \in 0 .. 63

\* The bits of byte i, the highest first.
ByteBitsOf(b, x, i) == \A k \in 0 .. 7 : b[k] = ValueBit(x, 8 * i + k)

\* Byte p of four q of such values.
OctetIn(x, q, p) ==
  OctetOf(ByteAt(x, 4 * q + 1), ByteAt(x, 4 * q + 2), ByteAt(x, 4 * q + 3),
          ByteAt(x, 4 * q + 4), p)

\* The byte the reference collects is that of the four values.
LEMMA OctetFromBits ==
  ASSUME NEW x, SixBitValues(x), NEW q \in Nat, NEW p \in 0 .. 2,
         NEW i, i = 3 * q + p, NEW b, ByteBitsOf(b, x, i),
         NEW g, Gathers(g, b)
  PROVE  g[8] = OctetIn(x, q, p)
<1>0. /\ x \in Seq(Byte) /\ \A m \in Nat \ {0} : ByteAt(x, m) \in 0 .. 63
      /\ \A k \in 0 .. 7 : b[k] = ValueBit(x, 8 * (3 * q + p) + k)
  BY DEF SixBitValues, ByteBitsOf
<1>1. PICK A, B, C, D : /\ A = ByteAt(x, 4 * q + 1) /\ B = ByteAt(x, 4 * q + 2)
                        /\ C = ByteAt(x, 4 * q + 3) /\ D = ByteAt(x, 4 * q + 4)
  OBVIOUS
<1>2. A \in 0 .. 63 /\ B \in 0 .. 63 /\ C \in 0 .. 63 /\ D \in 0 .. 63
  <2>1. 4 * q + 1 \in Nat \ {0} /\ 4 * q + 2 \in Nat \ {0} /\ 4 * q + 3 \in Nat \ {0}
        /\ 4 * q + 4 \in Nat \ {0}
    OBVIOUS
  <2> QED BY <1>0, <1>1, <2>1
<1>3. /\ OctetOf(A, B, C, D, 0) = 4 * A + (B \div 16)
      /\ OctetOf(A, B, C, D, 1) = 16 * (B % 16) + (C \div 4)
      /\ OctetOf(A, B, C, D, 2) = 64 * (C % 4) + D
  BY DEF OctetOf
<1>4. p = 0 => /\ b[0] = BitOf(A, 5) /\ b[1] = BitOf(A, 4) /\ b[2] = BitOf(A, 3)
               /\ b[3] = BitOf(A, 2) /\ b[4] = BitOf(A, 1) /\ b[5] = BitOf(A, 0)
               /\ b[6] = BitOf(B, 5) /\ b[7] = BitOf(B, 4)
  <2>1. /\ \A k \in 0 .. 5 : ValueBit(x, 8 * (3 * q + 0) + k) = BitOf(A, 5 - k)
        /\ \A k \in 6 .. 7 : ValueBit(x, 8 * (3 * q + 0) + k) = BitOf(B, 11 - k)
    BY <1>0, <1>1, OctetBits
  <2>2. p = 0 => /\ \A k \in 0 .. 5 : b[k] = BitOf(A, 5 - k)
                 /\ \A k \in 6 .. 7 : b[k] = BitOf(B, 11 - k)
    BY <1>0, <2>1
  <2>3. p = 0 => /\ b[0] = BitOf(A, 5 - 0) /\ b[1] = BitOf(A, 5 - 1) /\ b[2] = BitOf(A, 5 - 2)
                 /\ b[3] = BitOf(A, 5 - 3) /\ b[4] = BitOf(A, 5 - 4) /\ b[5] = BitOf(A, 5 - 5)
                 /\ b[6] = BitOf(B, 11 - 6) /\ b[7] = BitOf(B, 11 - 7)
    BY <2>2
  <2> QED BY <2>3
<1>5. p = 1 => /\ b[0] = BitOf(B, 3) /\ b[1] = BitOf(B, 2) /\ b[2] = BitOf(B, 1)
               /\ b[3] = BitOf(B, 0) /\ b[4] = BitOf(C, 5) /\ b[5] = BitOf(C, 4)
               /\ b[6] = BitOf(C, 3) /\ b[7] = BitOf(C, 2)
  <2>1. /\ \A k \in 0 .. 3 : ValueBit(x, 8 * (3 * q + 1) + k) = BitOf(B, 3 - k)
        /\ \A k \in 4 .. 7 : ValueBit(x, 8 * (3 * q + 1) + k) = BitOf(C, 9 - k)
    BY <1>0, <1>1, OctetBits
  <2>2. p = 1 => /\ \A k \in 0 .. 3 : b[k] = BitOf(B, 3 - k)
                 /\ \A k \in 4 .. 7 : b[k] = BitOf(C, 9 - k)
    BY <1>0, <2>1
  <2>3. p = 1 => /\ b[0] = BitOf(B, 3 - 0) /\ b[1] = BitOf(B, 3 - 1) /\ b[2] = BitOf(B, 3 - 2)
                 /\ b[3] = BitOf(B, 3 - 3) /\ b[4] = BitOf(C, 9 - 4) /\ b[5] = BitOf(C, 9 - 5)
                 /\ b[6] = BitOf(C, 9 - 6) /\ b[7] = BitOf(C, 9 - 7)
    BY <2>2
  <2> QED BY <2>3
<1>6. p = 2 => /\ b[0] = BitOf(C, 1) /\ b[1] = BitOf(C, 0) /\ b[2] = BitOf(D, 5)
               /\ b[3] = BitOf(D, 4) /\ b[4] = BitOf(D, 3) /\ b[5] = BitOf(D, 2)
               /\ b[6] = BitOf(D, 1) /\ b[7] = BitOf(D, 0)
  <2>1. /\ \A k \in 0 .. 1 : ValueBit(x, 8 * (3 * q + 2) + k) = BitOf(C, 1 - k)
        /\ \A k \in 2 .. 7 : ValueBit(x, 8 * (3 * q + 2) + k) = BitOf(D, 7 - k)
    BY <1>0, <1>1, OctetBits, ZenonT(40)
  <2>2. p = 2 => /\ \A k \in 0 .. 1 : b[k] = BitOf(C, 1 - k)
                 /\ \A k \in 2 .. 7 : b[k] = BitOf(D, 7 - k)
    BY <1>0, <2>1
  <2>3. p = 2 => /\ b[0] = BitOf(C, 1 - 0) /\ b[1] = BitOf(C, 1 - 1) /\ b[2] = BitOf(D, 7 - 2)
                 /\ b[3] = BitOf(D, 7 - 3) /\ b[4] = BitOf(D, 7 - 4) /\ b[5] = BitOf(D, 7 - 5)
                 /\ b[6] = BitOf(D, 7 - 6) /\ b[7] = BitOf(D, 7 - 7)
    BY <2>2
  <2> QED BY <2>3
<1>7. p = 0 \/ p = 1 \/ p = 2
  OBVIOUS
<1>8. \A n \in 0 .. 7 : /\ BitOf(A, n) \in 0 .. 1 /\ BitOf(B, n) \in 0 .. 1
                        /\ BitOf(C, n) \in 0 .. 1 /\ BitOf(D, n) \in 0 .. 1
  BY <1>2, SextetParts
<1>9. /\ b[0] \in 0 .. 1 /\ b[1] \in 0 .. 1 /\ b[2] \in 0 .. 1 /\ b[3] \in 0 .. 1
      /\ b[4] \in 0 .. 1 /\ b[5] \in 0 .. 1 /\ b[6] \in 0 .. 1 /\ b[7] \in 0 .. 1
  BY <1>4, <1>5, <1>6, <1>7, <1>8
<1>10. g[8] = 128 * b[0] + 64 * b[1] + 32 * b[2] + 16 * b[3] + 8 * b[4]
                + 4 * b[5] + 2 * b[6] + b[7]
  <2>1. \A k \in 0 .. 7 : b[k] \in 0 .. 1
    BY <1>9
  <2> QED BY <2>1, EightBits
<1>14. /\ b[0] \in Int /\ b[1] \in Int /\ b[2] \in Int /\ b[3] \in Int
       /\ b[4] \in Int /\ b[5] \in Int /\ b[6] \in Int /\ b[7] \in Int
  <2>1. \A v \in 0 .. 1 : v \in Int
    OBVIOUS
  <2> QED BY <1>9, <2>1, Zenon
<1>15. /\ g[8] = 4 * (32 * b[0] + 16 * b[1] + 8 * b[2] + 4 * b[3] + 2 * b[4] + b[5])
                   + (2 * b[6] + b[7])
       /\ g[8] = 16 * (8 * b[0] + 4 * b[1] + 2 * b[2] + b[3])
                   + (8 * b[4] + 4 * b[5] + 2 * b[6] + b[7])
       /\ g[8] = 64 * (2 * b[0] + b[1])
                   + (32 * b[2] + 16 * b[3] + 8 * b[4] + 4 * b[5] + 2 * b[6] + b[7])
  BY <1>10, <1>14, SumOfEight
<1>11. ASSUME p = 0 PROVE g[8] = OctetOf(A, B, C, D, p)
  <2>1. /\ A = 32 * b[0] + 16 * b[1] + 8 * b[2] + 4 * b[3] + 2 * b[4] + b[5]
        /\ B \div 16 = 2 * b[6] + b[7]
    BY <1>2, <1>4, <1>11, SextetParts
  <2>2. g[8] = 4 * A + (B \div 16)
    BY <1>15, <2>1, Zenon
  <2> QED BY <1>3, <1>11, <2>2
<1>12. ASSUME p = 1 PROVE g[8] = OctetOf(A, B, C, D, p)
  <2>1. /\ B % 16 = 8 * b[0] + 4 * b[1] + 2 * b[2] + b[3]
        /\ C \div 4 = 8 * b[4] + 4 * b[5] + 2 * b[6] + b[7]
    BY <1>2, <1>5, <1>12, SextetParts
  <2>2. g[8] = 16 * (B % 16) + (C \div 4)
    BY <1>15, <2>1, Zenon
  <2> QED BY <1>3, <1>12, <2>2
<1>13. ASSUME p = 2 PROVE g[8] = OctetOf(A, B, C, D, p)
  <2>1. /\ C % 4 = 2 * b[0] + b[1]
        /\ D = 32 * b[2] + 16 * b[3] + 8 * b[4] + 4 * b[5] + 2 * b[6] + b[7]
    BY <1>2, <1>6, <1>13, SextetParts
  <2>2. g[8] = 64 * (C % 4) + D
    BY <1>15, <2>1, Zenon
  <2> QED BY <1>3, <1>13, <2>2
<1>16. g[8] = OctetOf(A, B, C, D, p)
  BY <1>7, <1>11, <1>12, <1>13
<1> QED BY <1>1, <1>16, Zenon DEF OctetIn

\* Six bits at a time in, eight at a time out: three bytes for four values.
LEMMA RegroupedValues ==
  ASSUME NEW x, SixBitValues(x), NEW n \in Nat, NEW q \in Nat, NEW p \in 0 .. 2, 3 * q + p + 1 \in 1 .. n
  PROVE  Regroup(x, 6, 8, n)[3 * q + p + 1] = OctetIn(x, q, p)
<1> DEFINE F(ii, g) == [k \in 0 .. 8 |-> IF k = 0 THEN 0 ELSE
                          2 * g[k - 1] + ValueBit(x, 8 * ii + k - 1)]
           first(ii) == CHOOSE g : g = F(ii, g)
           i == 3 * q + p
           b == [k \in 0 .. 7 |-> ValueBit(x, 8 * i + k)]
<1>0. x \in Seq(Byte) /\ \A m \in Nat \ {0} : ByteAt(x, m) \in 0 .. 63
  BY DEF SixBitValues
<1>1. Regroup(x, 6, 8, n) = [ii \in 1 .. n |-> first(ii - 1)[8]]
  BY DEF Regroup, ValueBit
<1>2. i + 1 - 1 = i /\ i \in Nat
  OBVIOUS
<1>3. Regroup(x, 6, 8, n)[i + 1] = first(i)[8]
  <2> HIDE DEF first
  <2> QED BY <1>1, <1>2
<1>4. \A g : g = F(i, g) <=> Gathers(g, b)
  <2> SUFFICES ASSUME NEW g PROVE g = F(i, g) <=> Gathers(g, b)
    OBVIOUS
  <2>1. ASSUME NEW k \in 0 .. 8, k # 0
        PROVE  ValueBit(x, 8 * i + k - 1) = b[k - 1]
    <3>1. k - 1 \in 0 .. 7 /\ 8 * i + k - 1 = 8 * i + (k - 1)
      BY <1>2, <2>1
    <3> HIDE DEF i
    <3>2. b[k - 1] = ValueBit(x, 8 * i + (k - 1))
      BY <3>1
    <3> QED BY <3>1, <3>2, Zenon
  <2> HIDE DEF i, b
  <2>2. F(i, g) = [k \in 0 .. 8 |-> IF k = 0 THEN 0 ELSE 2 * g[k - 1] + b[k - 1]]
    BY <2>1, Zenon
  <2> QED BY <2>2, Zenon DEF Gathers
<1>5. \A k \in 0 .. 7 : b[k] \in 0 .. 1
  <2> SUFFICES ASSUME NEW k \in 0 .. 7 PROVE b[k] \in 0 .. 1
    OBVIOUS
  <2> DEFINE j == 8 * i + k
             u == j \div 6
             v == j % 6
  <2>1. j \in Nat /\ u \in Nat /\ v \in 0 .. 5 /\ j = 6 * u + v
    BY <1>2
  <2> HIDE DEF j, u, v
  <2>2. ValueBit(x, j) = BitOf(ByteAt(x, u + 1), 5 - v)
    BY <1>0, <2>1, ValueBitIs
  <2>3. ByteAt(x, u + 1) \in 0 .. 63 /\ 5 - v \in 0 .. 7
    <3>1. u + 1 \in Nat \ {0} /\ 5 - v \in 0 .. 7
      BY <2>1
    <3> QED BY <1>0, <3>1
  <2>4. BitOf(ByteAt(x, u + 1), 5 - v) \in 0 .. 1
    BY <2>3, SextetParts
  <2> HIDE DEF i
  <2>5. b[k] = ValueBit(x, j)
    BY DEF j
  <2> QED BY <2>2, <2>4, <2>5
<1>6. first(i) = F(i, first(i))
  <2>1. \E g : g = F(i, g)
    <3>1. \E g : Gathers(g, b)
      <4> HIDE DEF b
      <4> QED BY <1>5, EightBits
    <3> HIDE DEF b, i, F
    <3> QED BY <1>4, <3>1
  <2> HIDE DEF F, i
  <2> QED BY <2>1
<1>7. ByteBitsOf(b, x, i)
  BY Zenon DEF ByteBitsOf
<1> HIDE DEF first, b, F
<1>8. Gathers(first(i), b)
  <2> HIDE DEF i
  <2> QED BY <1>4, <1>6
<1>9. first(i)[8] = OctetIn(x, q, p)
  <2>1. PICK j : j = i
    OBVIOUS
  <2>2. j = 3 * q + p
    BY <2>1
  <2> HIDE DEF i
  <2>3. ByteBitsOf(b, x, j) /\ Gathers(first(i), b)
    BY <1>7, <1>8, <2>1
  <2> QED BY <2>2, <2>3, OctetFromBits
<1> QED BY <1>3, <1>9

\* A number as a multiple of four and what is left.
LEMMA InFours ==
  ASSUME NEW n \in Nat
  PROVE  /\ n \div 4 \in Nat /\ n % 4 \in 0 .. 3 /\ n = 4 * (n \div 4) + (n % 4)
         /\ (6 * n) \div 8 = 3 * (n \div 4) + (IF n % 4 = 0 THEN 0 ELSE (n % 4) - 1)
         /\ (6 * n) % 8 = (IF n % 4 = 0 THEN 0 ELSE 8 - 2 * (n % 4))
         /\ (6 * n) \div 8 \in Nat
<1>1. n \div 4 \in Nat /\ n % 4 \in 0 .. 3 /\ n = 4 * (n \div 4) + (n % 4)
  OBVIOUS
<1>2. PICK q, p : q = n \div 4 /\ p = n % 4
  OBVIOUS
<1>3. q \in Nat /\ p \in 0 .. 3 /\ n = 4 * q + p
  BY <1>1, <1>2
<1>4. (6 * n) \div 8 = 3 * q + (IF p = 0 THEN 0 ELSE p - 1)
  BY <1>3
<1>5. (6 * n) % 8 = (IF p = 0 THEN 0 ELSE 8 - 2 * p)
  BY <1>3
<1>6. (6 * n) \div 8 \in Nat
  BY <1>3, <1>4
<1> QED BY <1>1, <1>2, <1>4, <1>5, <1>6

\* A byte that is whole needs only letters of the text.
LEMMA NeededLetters ==
  ASSUME NEW n \in Nat, NEW q \in Nat, NEW p \in 0 .. 2, 3 * q + p + 1 <= (6 * n) \div 8
  PROVE  4 * q + p + 2 <= n
<1>1. PICK t, r : t = n \div 4 /\ r = n % 4
  OBVIOUS
<1>2. t \in Nat /\ r \in 0 .. 3 /\ n = 4 * t + r
      /\ (6 * n) \div 8 = 3 * t + (IF r = 0 THEN 0 ELSE r - 1)
  BY <1>1, InFours
<1>3. q <= t /\ (q = t => p + 2 <= r)
  BY <1>2
<1>4. CASE q = t
  BY <1>2, <1>3, <1>4
<1>5. CASE q + 1 <= t
  BY <1>2, <1>5
<1> QED BY <1>2, <1>3, <1>4, <1>5

\* The text ends after n letters.
Stops(s, n) ==
  /\ n \in 0 .. Len(s)
  /\ \A i \in 1 .. n : s[i] \in AlphabetChars
  /\ n = Len(s) \/ s[n + 1] \notin AlphabetChars

\* ... which is one place.
LEMMA StopsOnce ==
  ASSUME NEW s \in Seq(Byte)
  PROVE  /\ \E n \in Nat : Stops(s, n)
         /\ \A m, n : Stops(s, m) /\ Stops(s, n) => m = n
<1>1. Len(s) \in Nat
  OBVIOUS
<1>2. \E n \in Nat : Stops(s, n)
  <2> DEFINE S == {k \in 0 .. Len(s) :
                     (\A i \in 1 .. k : s[i] \in AlphabetChars) \/ \E n \in Nat : Stops(s, n)}
  <2>1. 0 \in S
    <3>1. 0 \in 0 .. Len(s) /\ 1 .. 0 = {}
      BY <1>1
    <3> QED BY <3>1
  <2>2. ASSUME NEW k \in 0 .. Len(s) - 1, k \in S PROVE k + 1 \in S
    <3>1. k + 1 \in 0 .. Len(s) /\ k \in 0 .. Len(s) /\ k \in Nat
      BY <1>1
    <3>2. CASE \E n \in Nat : Stops(s, n)
      BY <3>1, <3>2
    <3>3. CASE \A i \in 1 .. k : s[i] \in AlphabetChars
      <4>1. CASE s[k + 1] \in AlphabetChars
        <5>1. \A i \in 1 .. k + 1 : i \in 1 .. k \/ i = k + 1
          BY <3>1
        <5> QED BY <3>1, <3>3, <4>1, <5>1
      <4>2. CASE s[k + 1] \notin AlphabetChars
        <5>1. Stops(s, k)
          BY <3>1, <3>3, <4>2 DEF Stops
        <5> QED BY <3>1, <5>1
      <4> QED BY <4>1, <4>2
    <3> QED BY <2>2, <3>2, <3>3
  <2>3. 0 .. Len(s) \subseteq S
    <3> HIDE DEF S
    <3> QED BY <1>1, <2>1, <2>2, BoundedInduction
  <2>4. Len(s) \in S
    <3>1. Len(s) \in 0 .. Len(s)
      BY <1>1
    <3> QED BY <2>3, <3>1, Zenon
  <2>5. ASSUME \A i \in 1 .. Len(s) : s[i] \in AlphabetChars PROVE Stops(s, Len(s))
    <3>1. Len(s) \in 0 .. Len(s)
      BY <1>1
    <3> QED BY <2>5, <3>1, Zenon DEF Stops
  <2> QED BY <1>1, <2>4, <2>5
<1>3. ASSUME NEW m, NEW n, Stops(s, m), Stops(s, n) PROVE m = n
  <2>1. m \in 0 .. Len(s) /\ n \in 0 .. Len(s)
    BY <1>3 DEF Stops
  <2>2. ASSUME NEW a \in 0 .. Len(s), NEW c \in 0 .. Len(s), Stops(s, a), Stops(s, c), a < c
        PROVE  FALSE
    <3>1. a # Len(s) /\ a + 1 \in 1 .. c
      BY <1>1, <2>2
    <3> QED BY <2>2, <3>1 DEF Stops
  <2> QED BY <1>1, <1>3, <2>1, <2>2
<1> QED BY <1>2, <1>3

\* The bytes of n letters.
Decoded(s, n) == Regroup([i \in 1 .. n |-> ValueOfChar[s[i]]], 6, 8, (6 * n) \div 8)

\* They are the bytes of fours of letters, as many as are whole.
LEMMA DecodedIs ==
  ASSUME NEW s \in Seq(Byte), NEW n \in 0 .. Len(s), \A i \in 1 .. n : s[i] \in AlphabetChars
  PROVE  /\ Measures(Decoded(s, n), (6 * n) \div 8)
         /\ \A q \in Nat, p \in 0 .. 2 : 3 * q + p + 1 <= (6 * n) \div 8 =>
              Decoded(s, n)[3 * q + p + 1] = OctetAt(s, q, p)
<1> DEFINE x == [i \in 1 .. n |-> ValueOfChar[s[i]]]
           m == (6 * n) \div 8
           y == Regroup(x, 6, 8, m)
<1>1. n \in Nat /\ Len(s) \in Nat /\ m \in Nat
  <2>1. n \in Nat /\ Len(s) \in Nat
    OBVIOUS
  <2> QED BY <2>1, InFours
<1>2. ASSUME NEW i \in 1 .. n
      PROVE  ValueOfChar[s[i]] \in 0 .. 63 /\ ValueOfChar[s[i]] = SextetIn(s, i)
  <2>1. i <= Len(s) /\ i \in 1 .. Len(s)
    BY <1>1
  <2>2. s[i] \in Byte /\ s[i] \in AlphabetChars
    BY <2>1
  <2>3. /\ CharValue(s[i]) # Invalid /\ ValueOfChar[s[i]] = CharValue(s[i])
        /\ CharValue(s[i]) \in 0 .. 63
    BY <2>2, CharValueIs
  <2> QED BY <2>1, <2>3 DEF SextetIn
<1>3. x \in Seq(Byte) /\ Len(x) = n
  <2>1. 0 .. 63 \subseteq Byte
    BY DEF Byte
  <2>2. x \in [1 .. n -> Byte]
    BY <1>2, <2>1
  <2> HIDE DEF x
  <2> QED BY <1>1, <2>2
<1>4. ASSUME NEW i \in Nat \ {0}
      PROVE  ByteAt(x, i) \in 0 .. 63 /\ (i <= n => ByteAt(x, i) = SextetIn(s, i))
  <2>1. CASE i <= n
    <3>1. i \in 1 .. n
      BY <1>1, <2>1
    <3>2. x[i] \in 0 .. 63 /\ x[i] = SextetIn(s, i)
      BY <1>2, <3>1
    <3> HIDE DEF x
    <3> QED BY <1>3, <2>1, <3>2 DEF ByteAt
  <2>2. CASE ~(i <= n)
    <3> HIDE DEF x
    <3> QED BY <1>3, <2>2 DEF ByteAt
  <2> QED BY <2>1, <2>2
<1>5. Decoded(s, n) = y
  BY Zenon DEF Decoded
<1> HIDE DEF x, m
<1>6. Measures(y, m)
  <2>1. y = [i \in 1 .. m |-> y[i]]
    BY DEF Regroup
  <2> HIDE DEF y
  <2> QED BY <1>1, <2>1, Measured
<1>7. ASSUME NEW q \in Nat, NEW p \in 0 .. 2, 3 * q + p + 1 <= m
      PROVE  y[3 * q + p + 1] = OctetAt(s, q, p)
  <2>1. 3 * q + p + 1 \in 1 .. m
    BY <1>1, <1>7
  <2>2. y[3 * q + p + 1] = OctetIn(x, q, p)
    <3>1. SixBitValues(x)
      BY <1>3, <1>4 DEF SixBitValues
    <3> QED BY <1>1, <2>1, <3>1, RegroupedValues
  <2>3. 4 * q + p + 2 <= n
    BY <1>1, <1>7, NeededLetters DEF m
  <2>4. 4 * q + 1 \in Nat \ {0} /\ 4 * q + 2 \in Nat \ {0} /\ 4 * q + 3 \in Nat \ {0}
        /\ 4 * q + 4 \in Nat \ {0}
    OBVIOUS
  <2>5. /\ 4 * q + 1 <= n /\ 4 * q + 2 <= n
        /\ (p >= 1 => 4 * q + 3 <= n) /\ (p = 2 => 4 * q + 4 <= n)
    BY <1>1, <2>3
  <2>6. PICK A, B, C, D : /\ A = ByteAt(x, 4 * q + 1) /\ B = ByteAt(x, 4 * q + 2)
                          /\ C = ByteAt(x, 4 * q + 3) /\ D = ByteAt(x, 4 * q + 4)
    OBVIOUS
  <2>7. PICK a, b, c, d : /\ a = SextetIn(s, 4 * q + 1) /\ b = SextetIn(s, 4 * q + 2)
                          /\ c = SextetIn(s, 4 * q + 3) /\ d = SextetIn(s, 4 * q + 4)
    OBVIOUS
  <2>8. A = a /\ B = b /\ (p >= 1 => C = c) /\ (p = 2 => D = d)
    BY <1>4, <2>4, <2>5, <2>6, <2>7
  <2>9. OctetOf(A, B, C, D, p) = OctetOf(a, b, c, d, p)
    <3>1. p = 0 \/ p = 1 \/ p = 2
      OBVIOUS
    <3>2. CASE p = 0
      BY <2>8, <3>2 DEF OctetOf
    <3>3. CASE p = 1
      BY <2>8, <3>3 DEF OctetOf
    <3>4. CASE p = 2
      BY <2>8, <3>4 DEF OctetOf
    <3> QED BY <3>1, <3>2, <3>3, <3>4
  <2> QED BY <2>2, <2>6, <2>7, <2>9, Zenon DEF OctetAt, OctetIn
<1> HIDE DEF y
<1> QED BY <1>5, <1>6, <1>7 DEF m

\* When n letters are no text: an impossible length, no room, or bits left over.
Refused(s, n, capacity) ==
  \/ n % 4 = 1 \/ (6 * n) \div 8 > capacity
  \/ n % 4 = 2 /\ SextetIn(s, n) % 16 # 0
  \/ n % 4 = 3 /\ SextetIn(s, n) % 4 # 0

\* What the reference gives.
LEMMA ReferenceIs ==
  ASSUME NEW s \in Seq(Byte), NEW n, Stops(s, n), NEW capacity \in Nat
  PROVE  ReferenceDecode(s, capacity) =
           IF Refused(s, n, capacity) THEN Err ELSE Ok(Decoded(s, n), n)
<1> DEFINE chosen == CHOOSE k \in 0 .. Len(s) :
                       /\ \A i \in 1 .. k : s[i] \in AlphabetChars
                       /\ k = Len(s) \/ s[k + 1] \notin AlphabetChars
           values(k) == [i \in 1 .. k |-> ValueOfChar[s[i]]]
           given(k) == IF k % 4 = 1 \/ Len(Decoded(s, k)) > capacity
                          \/ (k % 4 = 2 /\ values(k)[k] % 16 # 0)
                          \/ (k % 4 = 3 /\ values(k)[k] % 4 # 0)
                       THEN Err ELSE Ok(Decoded(s, k), k)
           x == values(n)
<1>1. chosen = n
  <2>1. Stops(s, chosen)
    <3>1. \E k \in 0 .. Len(s) : /\ \A i \in 1 .. k : s[i] \in AlphabetChars
                                 /\ k = Len(s) \/ s[k + 1] \notin AlphabetChars
      BY Zenon DEF Stops
    <3> QED BY <3>1, Zenon DEF Stops
  <2> HIDE DEF chosen
  <2> QED BY <2>1, StopsOnce
<1>2. n \in Nat /\ n \in 0 .. Len(s) /\ \A i \in 1 .. n : s[i] \in AlphabetChars
  BY DEF Stops
<1>3. ReferenceDecode(s, capacity) = given(n)
  <2>1. ReferenceDecode(s, capacity) = given(chosen)
    BY DEF ReferenceDecode, Decoded
  <2> HIDE DEF chosen, given
  <2> QED BY <1>1, <2>1
<1>4. Len(Decoded(s, n)) = (6 * n) \div 8
  BY <1>2, DecodedIs DEF Measures
<1>5. n % 4 = 2 \/ n % 4 = 3 => x[n] = SextetIn(s, n)
  <2> SUFFICES ASSUME n % 4 = 2 \/ n % 4 = 3 PROVE x[n] = SextetIn(s, n)
    OBVIOUS
  <2>1. n \in 1 .. n /\ n \in 1 .. Len(s) /\ n <= Len(s)
    BY <1>2
  <2>2. x[n] = ValueOfChar[s[n]]
    BY <2>1
  <2>3. s[n] \in Byte /\ s[n] \in AlphabetChars
    BY <1>2, <2>1
  <2> HIDE DEF x
  <2> QED BY <2>1, <2>2, <2>3, CharValueIs DEF SextetIn
<1> HIDE DEF values
<1> QED BY <1>3, <1>4, <1>5, Zenon DEF Refused

-----------------------------------------------------------------------------
(* The scalar decoder                                                        *)

\* The states of the loop.
DecodeStates ==
  [acc : {x \in Nat : Short(x)}, bits : {0, 2, 4, 6}, used : Nat, out : Seq(Byte),
   end : {"no", "char", "full"}]

\* The byte a letter of value v completes, after a value a.
Completes(bits, a, v) ==
  CASE bits = 6 -> 4 * a + (v \div 16)
    [] bits = 4 -> 16 * (a % 16) + (v \div 4)
    [] bits = 2 -> 64 * (a % 4) + v

\* What a character does to the text, after none, two, four or six bits left over.
Takes(q, c, e) ==
  /\ e \in DecodeStates
  /\ q.end # "no" => e = q
  /\ q.end = "no" /\ CharValue(c) = Invalid => e = [q EXCEPT !.end = "char"]
  /\ q.end = "no" /\ CharValue(c) # Invalid /\ q.bits = 0 =>
       /\ e.bits = 6 /\ e.acc % 64 = CharValue(c) /\ e.used = q.used + 1
       /\ e.out = q.out /\ e.end = "no"
  /\ q.end = "no" /\ CharValue(c) # Invalid /\ q.bits # 0 /\ Len(q.out) >= dstLen =>
       e.end = "full"
  /\ q.end = "no" /\ CharValue(c) # Invalid /\ q.bits # 0 /\ ~(Len(q.out) >= dstLen) =>
       /\ e.bits = q.bits - 2 /\ e.acc % 64 = CharValue(c) /\ e.used = q.used + 1
       /\ e.out = Append(q.out, Completes(q.bits, q.acc % 64, CharValue(c)))
       /\ e.end = "no"

\* The byte, cut out of the accumulator.
LEMMA CompletesByte ==
  ASSUME NEW acc \in Nat, NEW v \in 0 .. 63, NEW x, x = 64 * (acc % 1024) + v,
         NEW bits \in {2, 4, 6}, NEW y, y = ShiftRight(x, bits - 2),
         NEW a, a = acc % 64
  PROVE  (y & \hFF) = Completes(bits, a, v) /\ Completes(bits, a, v) \in Byte
<1>1. PICK b : b = (acc % 1024) \div 64
  OBVIOUS
<1>2. a \in 0 .. 63 /\ b \in 0 .. 15 /\ acc % 1024 = 64 * b + a
  BY <1>1
<1>3. x = 4096 * b + 64 * a + v /\ x \in Nat /\ x < 65536
  BY <1>2
<1>5. y \in Nat /\ y < 65536 /\ y % 256 = Completes(bits, a, v)
      /\ Completes(bits, a, v) \in 0 .. 255
  <2>1. ASSUME bits = 6 PROVE y = x \div 16 /\ Completes(bits, a, v) = 4 * a + (v \div 16)
    <3>1. bits - 2 = 4
      BY <2>1
    <3>2. y = ShiftRight(x, 4)
      BY <3>1
    <3> QED BY <1>3, <2>1, <3>2 DEF ShiftRight, Completes
  <2>2. ASSUME bits = 4 PROVE y = x \div 4 /\ Completes(bits, a, v) = 16 * (a % 16) + (v \div 4)
    <3>1. bits - 2 = 2
      BY <2>2
    <3>2. y = ShiftRight(x, 2)
      BY <3>1
    <3> QED BY <1>3, <2>2, <3>2 DEF ShiftRight, Completes
  <2>3. ASSUME bits = 2 PROVE y = x /\ Completes(bits, a, v) = 64 * (a % 4) + v
    <3>1. bits - 2 = 0
      BY <2>3
    <3>2. y = ShiftRight(x, 0)
      BY <3>1
    <3> QED BY <1>3, <2>3, <3>2 DEF ShiftRight, Completes
  <2>4. CASE bits = 6
    <3>1. PICK v1, v0 : v1 = v \div 16 /\ v0 = v % 16
      OBVIOUS
    <3>2. v1 \in 0 .. 3 /\ v0 \in 0 .. 15 /\ v = 16 * v1 + v0
      BY <3>1
    <3>3. x \div 16 = 256 * b + (4 * a + v1)
      BY <1>2, <1>3, <3>2
    <3>4. (256 * b + (4 * a + v1)) % 256 = 4 * a + v1 /\ 4 * a + v1 \in 0 .. 255
          /\ 256 * b + (4 * a + v1) < 65536 /\ 256 * b + (4 * a + v1) \in Nat
      BY <1>2, <3>2
    <3> QED BY <2>1, <2>4, <3>1, <3>3, <3>4
  <2>5. CASE bits = 4
    <3>1. PICK a1, a0, v1, v0 : a1 = a \div 16 /\ a0 = a % 16 /\ v1 = v \div 4 /\ v0 = v % 4
      OBVIOUS
    <3>2. a1 \in 0 .. 3 /\ a0 \in 0 .. 15 /\ a = 16 * a1 + a0
          /\ v1 \in 0 .. 15 /\ v0 \in 0 .. 3 /\ v = 4 * v1 + v0
      BY <1>2, <3>1
    <3>3. x \div 4 = 256 * (4 * b + a1) + (16 * a0 + v1)
      BY <1>2, <1>3, <3>2
    <3>4. (256 * (4 * b + a1) + (16 * a0 + v1)) % 256 = 16 * a0 + v1 /\ 16 * a0 + v1 \in 0 .. 255
          /\ 256 * (4 * b + a1) + (16 * a0 + v1) < 65536
          /\ 256 * (4 * b + a1) + (16 * a0 + v1) \in Nat
      BY <1>2, <3>2
    <3> QED BY <2>2, <2>5, <3>1, <3>3, <3>4
  <2>6. CASE bits = 2
    <3>1. PICK a1, a0 : a1 = a \div 4 /\ a0 = a % 4
      OBVIOUS
    <3>2. a1 \in 0 .. 15 /\ a0 \in 0 .. 3 /\ a = 4 * a1 + a0
      BY <1>2, <3>1
    <3>3. x = 256 * (16 * b + a1) + (64 * a0 + v)
      BY <1>2, <1>3, <3>2
    <3>4. (256 * (16 * b + a1) + (64 * a0 + v)) % 256 = 64 * a0 + v /\ 64 * a0 + v \in 0 .. 255
      BY <1>2, <3>2
    <3>5. y = x
      BY <2>3, <2>6
    <3>6. Completes(bits, a, v) = 64 * a0 + v
      BY <2>3, <2>6, <3>1
    <3>7. x % 256 = 64 * a0 + v
      BY <3>3, <3>4
    <3> QED BY <1>3, <3>4, <3>5, <3>6, <3>7
  <2> QED BY <2>4, <2>5, <2>6
<1>6. (y & 255) = y % 256
  <2>1. Short(y)
    BY <1>5 DEF Short
  <2> QED BY <2>1, Masks
<1>7. (y & \hFF) = y % 256
  BY <1>6
<1> QED BY <1>5, <1>7 DEF Byte

\* Each state leads to such a state.
LEMMA DecodesChar ==
  ASSUME NEW q \in DecodeStates, NEW c \in Byte
  PROVE  Takes(q, c, DecodeChar(q, c))
<1>1. PICK d, acc, bits, e : /\ d = ByteOf[c] /\ acc = (ShiftLeft(q.acc, 6) | d)
                             /\ bits = q.bits + 6 /\ e = DecodeChar(q, c)
  OBVIOUS
<1>2. q.acc \in Nat /\ q.bits \in {0, 2, 4, 6} /\ q.used \in Nat /\ q.out \in Seq(Byte)
      /\ q.end \in {"no", "char", "full"}
  BY DEF DecodeStates
<1>3. d = CharValue(c) /\ (d \in 0 .. 63 \/ d = Invalid)
  BY <1>1, ScalarValues, CharValueIs
<1>4. e = IF q.end # "no" THEN q
          ELSE IF d = \hFF THEN [q EXCEPT !.end = "char"]
          ELSE IF bits < 8 THEN [q EXCEPT !.acc = acc, !.bits = bits, !.used = @ + 1]
          ELSE IF Len(q.out) >= dstLen THEN [q EXCEPT !.end = "full"]
          ELSE [q EXCEPT !.acc = acc, !.bits = bits - 8, !.used = @ + 1,
                         !.out = Append(@, ShiftRight(acc, bits - 8) & \hFF)]
  BY <1>1, Zenon DEF DecodeChar
<1>5. CASE q.end # "no"
  <2>1. e = q
    BY <1>4, <1>5
  <2> QED BY <1>1, <1>5, <2>1 DEF Takes
<1>6. CASE q.end = "no" /\ CharValue(c) = Invalid
  <2>1. d = \hFF
    BY <1>3, <1>6 DEF Invalid
  <2>2. e = [q EXCEPT !.end = "char"]
    BY <1>4, <1>6, <2>1
  <2>3. e \in DecodeStates
    BY <2>2 DEF DecodeStates
  <2> QED BY <1>1, <1>6, <2>2, <2>3 DEF Takes
<1>7. CASE q.end = "no" /\ CharValue(c) # Invalid
  <2>1. d \in 0 .. 63 /\ d # \hFF
    BY <1>3, <1>7
  <2>0. PICK g : g = q.acc
    OBVIOUS
  <2>2. acc = 64 * (g % 1024) + d
    <3>0. PICK u : u = ShiftLeft(g, 6)
      OBVIOUS
    <3>1. g \in Nat /\ acc = (u | d)
      BY <1>1, <1>2, <2>0, <3>0
    <3>2. u = 64 * (g % 1024) /\ u \in Nat /\ u < 65536 /\ u % 64 = 0
      BY <3>0, <3>1, AccumulatesSix
    <3>3. (u | d) = u + d
      BY <2>1, <3>2, OrOfShift
    <3> QED BY <3>1, <3>2, <3>3
  <2>3. acc \in Nat /\ Short(acc) /\ acc % 64 = d
    <3>0. g \in Nat
      BY <1>2, <2>0
    <3>1. PICK a : a = g % 1024
      OBVIOUS
    <3>2. a \in 0 .. 1023 /\ acc = 64 * a + d
      <4>1. a \in 0 .. 1023
        BY <3>0, <3>1
      <4> QED BY <2>2, <3>1, <4>1
    <3>3. acc \in Nat /\ acc < 65536 /\ acc % 64 = d
      BY <2>1, <3>2
    <3> QED BY <3>3 DEF Short
  <2>4. CASE q.bits = 0
    <3>1. bits = 6 /\ bits < 8
      BY <1>1, <2>4
    <3>2. e = [q EXCEPT !.acc = acc, !.bits = bits, !.used = @ + 1]
      BY <1>4, <1>7, <2>1, <3>1
    <3>5. e = [acc |-> acc, bits |-> 6, used |-> q.used + 1, out |-> q.out, end |-> "no"]
      BY <1>7, <3>1, <3>2 DEF DecodeStates
    <3>3. /\ e.acc = acc /\ e.bits = 6 /\ e.used = q.used + 1 /\ e.out = q.out /\ e.end = "no"
          /\ e \in DecodeStates
      BY <1>2, <2>3, <3>5 DEF DecodeStates
    <3> QED BY <1>1, <1>3, <1>7, <2>3, <2>4, <3>3 DEF Takes
  <2>5. CASE q.bits # 0 /\ Len(q.out) >= dstLen
    <3>1. ~(bits < 8)
      BY <1>1, <1>2, <2>5
    <3>2. e = [q EXCEPT !.end = "full"]
      BY <1>4, <1>7, <2>1, <2>5, <3>1
    <3>3. e.end = "full" /\ e \in DecodeStates
      BY <3>2 DEF DecodeStates
    <3> QED BY <1>1, <1>7, <2>5, <3>3 DEF Takes
  <2>6. CASE q.bits # 0 /\ ~(Len(q.out) >= dstLen)
    <3>1. ~(bits < 8) /\ bits - 8 = q.bits - 2 /\ q.bits \in {2, 4, 6} /\ bits - 8 \in {0, 2, 4, 6}
      BY <1>1, <1>2, <2>6
    <3>2. PICK byte : byte = (ShiftRight(acc, bits - 8) & \hFF)
      OBVIOUS
    <3>3. byte = Completes(q.bits, q.acc % 64, d) /\ byte \in Byte
      <4>1. PICK y, n, a : y = ShiftRight(acc, bits - 8) /\ n = q.bits /\ a = g % 64
        OBVIOUS
      <4>2. g \in Nat /\ n \in {2, 4, 6} /\ y = ShiftRight(acc, n - 2)
        BY <1>2, <2>0, <3>1, <4>1
      <4>3. (y & \hFF) = Completes(n, a, d) /\ Completes(n, a, d) \in Byte
        BY <2>1, <2>2, <4>1, <4>2, CompletesByte
      <4> QED BY <2>0, <3>2, <4>1, <4>3, Zenon
    <3>4. e = [q EXCEPT !.acc = acc, !.bits = bits - 8, !.used = @ + 1,
                        !.out = Append(@, byte)]
      BY <1>4, <1>7, <2>1, <2>6, <3>1, <3>2
    <3>6. e = [acc |-> acc, bits |-> bits - 8, used |-> q.used + 1,
               out |-> Append(q.out, byte), end |-> "no"]
      BY <1>7, <3>4 DEF DecodeStates
    <3>5. /\ e.acc = acc /\ e.bits = bits - 8 /\ e.used = q.used + 1
          /\ e.out = Append(q.out, byte) /\ e.end = "no" /\ e \in DecodeStates
      BY <1>2, <2>3, <3>1, <3>3, <3>6 DEF DecodeStates
    <3> QED BY <1>1, <1>3, <1>7, <2>3, <2>6, <3>1, <3>3, <3>5 DEF Takes
  <2> QED BY <2>4, <2>5, <2>6
<1> QED BY <1>5, <1>6, <1>7

\* A text goes on with one byte.
LEMMA ExtendsByOne ==
  ASSUME NEW done, IsSeq(done), NEW T, NEW n \in Nat, NEW o \in Seq(Byte), Extended(o, done, T, n),
         NEW b \in Byte, NEW i, i = n + 1, T[i] = b
  PROVE  Extended(Append(o, b), done, T, i)
<1>1. PICK w : w = <<b>>
  OBVIOUS
<1>2. IsSeq(w) /\ Len(w) = 1 /\ w[1] = b
  <2>1. w \in Seq(Byte)
    BY <1>1
  <2> QED BY <1>1, <2>1 DEF IsSeq
<1>3. \A j \in 1 .. Len(w) : w[j] = T[n + j]
  <2>1. \A j \in 1 .. 1 : w[j] = T[n + j]
    BY <1>2
  <2> QED BY <1>2, <2>1
<1>4. Extended(o \o w, done, T, n + Len(w))
  BY <1>2, <1>3, ExtendsMore
<1>5. Append(o, b) = o \o w
  BY <1>1, AppendIsConcat
<1> QED BY <1>2, <1>4, <1>5

\* Letters k and j, of which the second completes byte p of four t.
Completing(bits, a, v, s, t, p, k, j) ==
  /\ t \in Nat /\ p \in 0 .. 2 /\ k = 4 * t + p + 1 /\ j = k + 1
  /\ bits = 6 - 2 * p /\ a = SextetIn(s, k) /\ v = SextetIn(s, j)

\* The byte a letter completes is the one of its four letters.
LEMMA CompletesOctet ==
  ASSUME NEW s, NEW t, NEW p, NEW k, NEW j, NEW bits, NEW a, NEW v,
         Completing(bits, a, v, s, t, p, k, j)
  PROVE  Completes(bits, a, v) = OctetAt(s, t, p)
<1>0. /\ t \in Nat /\ p \in 0 .. 2 /\ k = 4 * t + p + 1 /\ j = k + 1
      /\ bits = 6 - 2 * p /\ a = SextetIn(s, k) /\ v = SextetIn(s, j)
  BY DEF Completing
<1>1. PICK A, B, C, D : /\ A = SextetIn(s, 4 * t + 1) /\ B = SextetIn(s, 4 * t + 2)
                        /\ C = SextetIn(s, 4 * t + 3) /\ D = SextetIn(s, 4 * t + 4)
  OBVIOUS
<1>2. OctetAt(s, t, p) = OctetOf(A, B, C, D, p)
  BY <1>1, Zenon DEF OctetAt
<1>3. CASE p = 0
  <2>1. bits = 6 /\ k = 4 * t + 1 /\ j = 4 * t + 2
    BY <1>0, <1>3
  <2>2. a = A /\ v = B
    BY <1>0, <1>1, <2>1, Zenon
  <2> QED BY <1>2, <1>3, <2>1, <2>2 DEF OctetOf, Completes
<1>4. CASE p = 1
  <2>1. bits = 4 /\ k = 4 * t + 2 /\ j = 4 * t + 3
    BY <1>0, <1>4
  <2>2. a = B /\ v = C
    BY <1>0, <1>1, <2>1, Zenon
  <2> QED BY <1>2, <1>4, <2>1, <2>2 DEF OctetOf, Completes
<1>5. CASE p = 2
  <2>1. bits = 2 /\ k = 4 * t + 3 /\ j = 4 * t + 4
    BY <1>0, <1>5
  <2>2. a = C /\ v = D
    BY <1>0, <1>1, <2>1, Zenon
  <2> QED BY <1>2, <1>5, <2>1, <2>2 DEF OctetOf, Completes
<1> QED BY <1>0, <1>3, <1>4, <1>5

\* The loop after m letters, all of them in the text.
Reads(e, done, start, s, n, m) ==
  /\ e.bits = (6 * m) % 8 /\ e.used = start + m
  /\ m > 0 => e.acc % 64 = SextetIn(s, m)
  /\ Extended(e.out, done, Decoded(s, n), (6 * m) \div 8)
  /\ Len(e.out) <= dstLen

\* ... after k characters of which n are letters.
HasRead(e, done, start, s, n, k) ==
  /\ e \in DecodeStates
  /\ \/ e.end = "full" /\ dstLen < Len(done) + ((6 * n) \div 8)
     \/ e.end = "no" /\ k <= n /\ Reads(e, done, start, s, n, k)
     \/ e.end = "char" /\ k > n /\ Reads(e, done, start, s, n, n)

\* A letter more.
LEMMA ReadsLetter ==
  ASSUME dstLen \in Nat, NEW done \in Seq(Byte), NEW start \in Nat, NEW s \in Seq(Byte), NEW n,
         Stops(s, n), NEW k \in Nat, k < n, NEW q \in DecodeStates, q.end = "no",
         Reads(q, done, start, s, n, k), NEW m, m = k + 1, NEW c, c = s[m],
         NEW e, Takes(q, c, e)
  PROVE  HasRead(e, done, start, s, n, m)
<1>1. n \in 0 .. Len(s) /\ n \in Nat /\ Len(s) \in Nat /\ m \in 1 .. n /\ m \in 1 .. Len(s)
      /\ m \in Nat /\ m <= n
  BY DEF Stops
<1>2. c \in Byte /\ c \in AlphabetChars
  BY <1>1 DEF Stops
<1>3. PICK v : v = CharValue(c)
  OBVIOUS
<1>4. v # Invalid /\ v \in 0 .. 63 /\ v = SextetIn(s, m)
  BY <1>1, <1>2, <1>3, CharValueIs DEF SextetIn
<1>5. PICK t, r : t = k \div 4 /\ r = k % 4
  OBVIOUS
<1>6. /\ t \in Nat /\ r \in 0 .. 3 /\ k = 4 * t + r
      /\ (6 * k) \div 8 = 3 * t + (IF r = 0 THEN 0 ELSE r - 1)
      /\ (6 * k) % 8 = (IF r = 0 THEN 0 ELSE 8 - 2 * r)
  BY <1>5, InFours
<1>7. PICK bits, len, B, L, N : /\ bits = (6 * k) % 8 /\ len = (6 * k) \div 8
                                /\ B = (6 * m) % 8 /\ L = (6 * m) \div 8
                                /\ N = (6 * n) \div 8
  OBVIOUS
<1>8. /\ bits = (IF r = 0 THEN 0 ELSE 8 - 2 * r) /\ len = 3 * t + (IF r = 0 THEN 0 ELSE r - 1)
      /\ B = (IF r = 0 THEN 6 ELSE bits - 2) /\ L = (IF r = 0 THEN len ELSE len + 1)
      /\ L <= N /\ N \in Nat /\ len \in Nat
  <2>1. m = 4 * t + (r + 1)
    BY <1>6
  <2>2. bits = (IF r = 0 THEN 0 ELSE 8 - 2 * r) /\ len = 3 * t + (IF r = 0 THEN 0 ELSE r - 1)
        /\ len \in Nat
    BY <1>6, <1>7
  <2>3. B = (IF r = 0 THEN 6 ELSE bits - 2)
    <3>1. /\ (6 * (4 * t + 1)) % 8 = 6 /\ (6 * (4 * t + 2)) % 8 = 4
          /\ (6 * (4 * t + 3)) % 8 = 2 /\ (6 * (4 * t + 4)) % 8 = 0
      BY <1>6
    <3>2. r = 0 \/ r = 1 \/ r = 2 \/ r = 3
      BY <1>6
    <3>3. CASE r = 0
      <4>1. m = 4 * t + 1
        BY <1>6, <2>1, <3>3
      <4> QED BY <1>7, <3>1, <3>3, <4>1
    <3>4. CASE r = 1
      <4>1. m = 4 * t + 2 /\ bits = 6
        BY <1>6, <2>1, <2>2, <3>4
      <4>2. B = 4
        BY <1>7, <3>1, <4>1, Zenon
      <4> QED BY <3>4, <4>1, <4>2
    <3>5. CASE r = 2
      <4>1. m = 4 * t + 3 /\ bits = 4
        BY <1>6, <2>1, <2>2, <3>5
      <4>2. B = 2
        BY <1>7, <3>1, <4>1, Zenon
      <4> QED BY <3>5, <4>1, <4>2
    <3>6. CASE r = 3
      <4>1. m = 4 * t + 4 /\ bits = 2
        BY <1>6, <2>1, <2>2, <3>6
      <4>2. B = 0
        BY <1>7, <3>1, <4>1, Zenon
      <4> QED BY <3>6, <4>1, <4>2
    <3> QED BY <3>2, <3>3, <3>4, <3>5, <3>6
  <2>4. L = (IF r = 0 THEN len ELSE len + 1)
    BY <1>6, <1>7, <2>1, <2>2
  <2>5. L <= N /\ N \in Nat
    BY <1>1, <1>7
  <2> QED BY <2>2, <2>3, <2>4, <2>5
<1>9. PICK T : T = Decoded(s, n)
  OBVIOUS
<1>10. /\ q.bits = bits /\ q.used = start + k /\ (k > 0 => q.acc % 64 = SextetIn(s, k))
       /\ Extended(q.out, done, T, len) /\ Len(q.out) <= dstLen
  BY <1>7, <1>9 DEF Reads
<1>11. q.out \in Seq(Byte) /\ e \in DecodeStates /\ IsSeq(done) /\ Len(done) \in Nat
  <2>1. e \in DecodeStates
    BY DEF Takes
  <2>2. q.out \in Seq(Byte)
    BY DEF DecodeStates
  <2>3. IsSeq(done) /\ Len(done) \in Nat
    BY DEF IsSeq
  <2> QED BY <2>1, <2>2, <2>3
<1>12. ASSUME e.end = "no", e.bits = B, e.acc % 64 = v, e.used = q.used + 1,
              Extended(e.out, done, T, L), Len(e.out) <= dstLen
       PROVE  HasRead(e, done, start, s, n, m)
  <2>1. e.used = start + m
    BY <1>10, <1>12
  <2>2. Reads(e, done, start, s, n, m)
    BY <1>4, <1>7, <1>9, <1>12, <2>1 DEF Reads
  <2> QED BY <1>1, <1>11, <1>12, <2>2 DEF HasRead
<1>13. ASSUME r = 0 PROVE HasRead(e, done, start, s, n, m)
  <2>1. q.bits = 0 /\ B = 6 /\ L = len
    BY <1>8, <1>10, <1>13
  <2>2. /\ e.bits = 6 /\ e.acc % 64 = v /\ e.used = q.used + 1 /\ e.out = q.out /\ e.end = "no"
    BY <1>3, <1>4, <2>1 DEF Takes
  <2> QED BY <1>10, <1>12, <2>1, <2>2
<1>14. ASSUME r # 0 PROVE HasRead(e, done, start, s, n, m)
  <2>1. PICK p : p = r - 1
    OBVIOUS
  <2>2. /\ p \in 0 .. 2 /\ k = 4 * t + p + 1 /\ bits = 6 - 2 * p /\ bits # 0 /\ k > 0
        /\ len = 3 * t + p /\ L = len + 1 /\ L = 3 * t + p + 1 /\ B = bits - 2
    BY <1>6, <1>8, <1>14, <2>1
  <2>3. CASE Len(q.out) >= dstLen
    <3>1. e.end = "full"
      BY <1>3, <1>4, <1>10, <2>2, <2>3 DEF Takes
    <3>2. dstLen < Len(done) + N
      <4>1. Len(q.out) = Len(done) + len
        BY <1>10 DEF Extended
      <4>2. PICK x, y : x = Len(q.out) /\ y = Len(done)
        OBVIOUS
      <4>3. x = y + len /\ x >= dstLen /\ y \in Nat /\ len + 1 <= N
        BY <1>8, <1>11, <2>2, <2>3, <4>1, <4>2
      <4>4. dstLen < y + N
        BY <1>8, <4>3
      <4> QED BY <4>2, <4>4
    <3> QED BY <1>7, <1>11, <3>1, <3>2 DEF HasRead
  <2>4. CASE ~(Len(q.out) >= dstLen)
    <3>1. PICK b, a : b = Completes(bits, a, v) /\ a = q.acc % 64
      OBVIOUS
    <3>2. /\ e.bits = bits - 2 /\ e.acc % 64 = v /\ e.used = q.used + 1
          /\ e.out = Append(q.out, b) /\ e.end = "no"
      BY <1>3, <1>4, <1>10, <2>2, <2>4, <3>1 DEF Takes
    <3>3. a = SextetIn(s, k) /\ v = SextetIn(s, k + 1)
      BY <1>4, <1>10, <2>2, <3>1
    <3>4. b = OctetAt(s, t, p)
      <4>1. /\ t \in Nat /\ p \in 0 .. 2 /\ k = 4 * t + p + 1 /\ bits = 6 - 2 * p
            /\ a = SextetIn(s, k) /\ m = k + 1 /\ v = SextetIn(s, m)
        BY <1>4, <1>6, <2>2, <3>3
      <4>2. Completes(bits, a, v) = OctetAt(s, t, p)
        <5>1. Completing(bits, a, v, s, t, p, k, m)
          BY <4>1 DEF Completing
        <5> QED BY <5>1, CompletesOctet
      <4> QED BY <3>1, <4>2
    <3>5. b \in Byte
      BY <1>6, <2>2, <3>4, SextetsIn
    <3>6. T[L] = b
      <4>1. 3 * t + p + 1 <= (6 * n) \div 8
        BY <1>7, <1>8, <2>2
      <4>2. T[3 * t + p + 1] = OctetAt(s, t, p)
        <5>1. \A i \in 1 .. n : s[i] \in AlphabetChars
          BY DEF Stops
        <5> QED BY <1>1, <1>6, <1>9, <2>2, <4>1, <5>1, DecodedIs
      <4> QED BY <2>2, <3>4, <4>2
    <3>7. Extended(e.out, done, T, L)
      BY <1>8, <1>10, <1>11, <2>2, <3>2, <3>5, <3>6, ExtendsByOne, ZenonT(40)
    <3>8. Len(e.out) <= dstLen
      <4>1. Len(e.out) = Len(q.out) + 1 /\ Len(q.out) \in Nat
        BY <1>11, <3>2, <3>5
      <4> QED BY <2>4, <4>1
    <3> QED BY <1>12, <2>2, <3>2, <3>7, <3>8
  <2> QED BY <2>3, <2>4
<1> QED BY <1>13, <1>14

\* A character more, which is the NUL after the end of the bytes.
LEMMA ReadsChar ==
  ASSUME dstLen \in Nat, NEW done \in Seq(Byte), NEW start \in Nat, NEW s \in Seq(Byte), NEW n,
         Stops(s, n), NEW text, text = Append(s, 0), NEW k \in 0 .. Len(s),
         NEW q, HasRead(q, done, start, s, n, k), NEW e, e = DecodeChar(q, text[k + 1])
  PROVE  HasRead(e, done, start, s, n, k + 1) /\ text[k + 1] \in Byte
<1>1. n \in 0 .. Len(s) /\ n \in Nat /\ Len(s) \in Nat /\ k \in Nat /\ q \in DecodeStates
  BY DEF Stops, HasRead
<1>2. PICK m, c : m = k + 1 /\ c = text[m]
  OBVIOUS
<1>3. c = (IF m <= Len(s) THEN s[m] ELSE 0) /\ c \in Byte
  <2>1. 0 \in Byte
    BY DEF Byte
  <2>2. m \in 1 .. Len(s) + 1
    BY <1>1, <1>2
  <2>3. c = (IF m <= Len(s) THEN s[m] ELSE 0)
    BY <1>1, <1>2, <2>1, <2>2
  <2>4. m <= Len(s) => m \in 1 .. Len(s)
    BY <1>1, <2>2
  <2> QED BY <2>1, <2>3, <2>4
<1>4. Takes(q, c, e)
  BY <1>1, <1>2, <1>3, DecodesChar
<1>5. CASE q.end = "full"
  <2>1. e = q
    BY <1>4, <1>5 DEF Takes
  <2> QED BY <1>2, <1>3, <1>5, <2>1 DEF HasRead
<1>6. CASE q.end = "char"
  <2>1. e = q
    BY <1>4, <1>6 DEF Takes
  <2>2. k + 1 > n
    BY <1>1, <1>6 DEF HasRead
  <2> QED BY <1>2, <1>3, <1>6, <2>1, <2>2 DEF HasRead
<1>7. CASE q.end = "no"
  <2>1. k <= n /\ Reads(q, done, start, s, n, k)
    BY <1>7 DEF HasRead
  <2>2. CASE k < n
    <3>1. m <= Len(s)
      BY <1>1, <1>2, <2>2
    <3>2. c = s[m]
      BY <1>3, <3>1
    <3>3. HasRead(e, done, start, s, n, m)
      BY <1>1, <1>2, <1>4, <1>7, <2>1, <2>2, <3>2, ReadsLetter
    <3> QED BY <1>2, <1>3, <3>3
  <2>3. CASE ~(k < n)
    <3>1. k = n /\ k + 1 > n
      BY <1>1, <2>1, <2>3
    <3>2. CharValue(c) = Invalid
      <4>1. CASE n = Len(s)
        <5>1. c = 0
          BY <1>1, <1>2, <1>3, <3>1, <4>1
        <5> QED BY <5>1 DEF CharValue
      <4>2. CASE n # Len(s)
        <5>1. c = s[n + 1]
          BY <1>1, <1>2, <1>3, <3>1, <4>2
        <5>2. c \notin AlphabetChars
          BY <4>2, <5>1 DEF Stops
        <5> QED BY <1>3, <5>2, CharValueIs
      <4> QED BY <4>1, <4>2
    <3>3. e = [q EXCEPT !.end = "char"] /\ e \in DecodeStates
      BY <1>4, <1>7, <3>2 DEF Takes
    <3>4. /\ e.bits = q.bits /\ e.used = q.used /\ e.acc = q.acc /\ e.out = q.out
          /\ e.end = "char"
      BY <1>1, <3>3 DEF DecodeStates
    <3>5. Reads(e, done, start, s, n, n)
      BY <2>1, <3>1, <3>4 DEF Reads
    <3> QED BY <1>2, <1>3, <3>1, <3>3, <3>4, <3>5 DEF HasRead
  <2> QED BY <2>2, <2>3
<1> QED BY <1>1, <1>5, <1>6, <1>7 DEF DecodeStates

\* The loop reads as far as the text goes, or as far as there is room.
LEMMA DecodeLoop ==
  ASSUME dstLen \in Nat, NEW done \in Seq(Byte), Len(done) <= dstLen, NEW start \in Nat,
         NEW s \in Seq(Byte), NEW n, Stops(s, n)
  PROVE  LET text == Append(s, 0)
             first == [acc |-> 0, bits |-> 0, used |-> start, out |-> done, end |-> "no"]
             F(f) == [k \in 0 .. Len(text) |-> IF k = 0 THEN first
                                               ELSE DecodeChar(f[k - 1], text[k])]
             f == CHOOSE f : f = F(f)
         IN HasRead(f[Len(text)], done, start, s, n, Len(s) + 1)
<1> DEFINE text == Append(s, 0)
           m == Len(text)
           first == [acc |-> 0, bits |-> 0, used |-> start, out |-> done, end |-> "no"]
           F(f) == [k \in 0 .. m |-> IF k = 0 THEN first ELSE DecodeChar(f[k - 1], text[k])]
           after == CHOOSE f : f = F(f)
           X == DecodeStates
           step == [x \in (1 .. m) \X X |-> DecodeChar(x[2], text[x[1]])]
<1>1. m = Len(s) + 1 /\ Len(s) \in Nat /\ \A k \in 1 .. m : text[k] \in Byte
  <2>1. 0 \in Byte
    BY DEF Byte
  <2>2. text \in Seq(Byte) /\ Len(text) = Len(s) + 1 /\ Len(s) \in Nat
    BY <2>1
  <2> HIDE DEF text
  <2> QED BY <2>2
<1>2. text = Append(s, 0)
  OBVIOUS
<1>3. first \in X
  <2>1. Short(0) /\ 0 \in Nat
    BY DEF Short
  <2> QED BY <2>1 DEF DecodeStates
<1>4. first.bits = 0 /\ first.used = start /\ first.out = done /\ first.end = "no"
  OBVIOUS
<1> HIDE DEF m, first, text
<1>5. step \in [(1 .. m) \X X -> X]
  <2>1. ASSUME NEW x \in (1 .. m) \X X PROVE DecodeChar(x[2], text[x[1]]) \in X
    <3>1. x[2] \in DecodeStates /\ text[x[1]] \in Byte
      BY <1>1
    <3>2. Takes(x[2], text[x[1]], DecodeChar(x[2], text[x[1]]))
      BY <3>1, DecodesChar
    <3> QED BY <3>2 DEF Takes
  <2> QED BY <2>1
<1>6. PICK g : Iterates(g, m, X, first, step)
  <2> HIDE DEF step, X
  <2>1. m \in Nat
    BY <1>1
  <2> QED BY <1>3, <1>5, <2>1, IterationExists
<1>7. g = F(g)
  <2>1. ASSUME NEW k \in 0 .. m
        PROVE  g[k] = IF k = 0 THEN first ELSE DecodeChar(g[k - 1], text[k])
    <3>1. CASE k = 0
      BY <1>6, <3>1 DEF Iterates
    <3>2. CASE k # 0
      <4>1. k \in 1 .. m /\ k - 1 \in 0 .. m
        BY <1>1, <3>2
      <4>2. g[k - 1] \in X /\ g[k] = step[<<k, g[k - 1]>>]
        <5> HIDE DEF step, X
        <5> QED BY <1>6, <4>1 DEF Iterates
      <4>3. <<k, g[k - 1]>> \in (1 .. m) \X X
        BY <4>1, <4>2
      <4>4. step[<<k, g[k - 1]>>] = DecodeChar(g[k - 1], text[k])
        BY <4>3
      <4> QED BY <3>2, <4>2, <4>4
    <3> QED BY <3>1, <3>2
  <2>2. g = [k \in 0 .. m |-> g[k]]
    <3> HIDE DEF step, X
    <3> QED BY <1>6 DEF Iterates
  <2> QED BY <2>1, <2>2, Zenon
<1>8. after = F(after)
  <2> HIDE DEF F
  <2> QED BY <1>7
<1> HIDE DEF after
<1>9. after[0] = first /\ \A k \in 0 .. m - 1 : after[k + 1] = DecodeChar(after[k], text[k + 1])
  <2>1. \A k \in 0 .. m : after[k] = IF k = 0 THEN first ELSE DecodeChar(after[k - 1], text[k])
    BY <1>8
  <2>2. ASSUME NEW k \in 0 .. m - 1 PROVE after[k + 1] = DecodeChar(after[k], text[k + 1])
    <3>1. k + 1 \in 0 .. m /\ k + 1 # 0 /\ k + 1 - 1 = k
      BY <1>1
    <3> QED BY <2>1, <3>1
  <2>3. 0 \in 0 .. m
    BY <1>1
  <2> QED BY <2>1, <2>2, <2>3
<1> DEFINE S == {k \in 0 .. m : HasRead(after[k], done, start, s, n, k)}
<1>10. 0 \in S
  <2>1. 0 \in 0 .. m /\ (6 * 0) % 8 = 0 /\ (6 * 0) \div 8 = 0 /\ ~(0 > 0) /\ start + 0 = start
    BY <1>1
  <2>2. 0 <= n
    BY DEF Stops
  <2>3. Extended(done, done, Decoded(s, n), 0)
    <3>1. IsSeq(done) /\ Len(done) = Len(done) + 0 /\ 1 .. 0 = {}
      BY DEF IsSeq
    <3> QED BY <3>1 DEF Extended
  <2>4. Reads(first, done, start, s, n, 0)
    BY <1>4, <2>1, <2>3 DEF Reads
  <2>5. HasRead(first, done, start, s, n, 0)
    BY <1>3, <1>4, <2>2, <2>4 DEF HasRead
  <2> QED BY <1>9, <2>1, <2>5
<1>11. ASSUME NEW k \in 0 .. m - 1, k \in S PROVE k + 1 \in S
  <2>1. HasRead(after[k], done, start, s, n, k) /\ k \in 0 .. Len(s) /\ k + 1 \in 0 .. m
    BY <1>1, <1>11
  <2>2. after[k + 1] = DecodeChar(after[k], text[k + 1])
    BY <1>9
  <2>3. HasRead(after[k + 1], done, start, s, n, k + 1)
    BY <1>2, <2>1, <2>2, ReadsChar
  <2> QED BY <2>1, <2>3
<1>12. m \in S
  <2> HIDE DEF S
  <2>1. m \in Nat
    BY <1>1
  <2>2. 0 .. m \subseteq S
    BY <1>10, <1>11, <2>1, BoundedInduction
  <2>3. m \in 0 .. m
    BY <2>1
  <2> QED BY <2>2, <2>3
<1>13. HasRead(after[m], done, start, s, n, Len(s) + 1)
  BY <1>1, <1>12
<1> QED BY <1>13 DEF after, m, first, text

\* What the scalar decoder returns: an error exactly when the letters are no text,
\* else the bytes of the blocks and those of the letters.
LEMMA ScalarDecodes ==
  ASSUME dstLen \in Nat, NEW done \in Seq(Byte), Len(done) <= dstLen, NEW start \in Nat,
         NEW s \in Seq(Byte), NEW n, Stops(s, n), NEW room, room = dstLen - Len(done)
  PROVE  /\ Refused(s, n, room) => DecodeScalar(done, start, s) = Err
         /\ ~Refused(s, n, room) =>
              \E o \in Seq(Byte) : /\ DecodeScalar(done, start, s) = Ok(o, start + n)
                                   /\ Extended(o, done, Decoded(s, n), (6 * n) \div 8)
<1> DEFINE text == Append(s, 0)
           first == [acc |-> 0, bits |-> 0, used |-> start, out |-> done, end |-> "no"]
           F(f) == [k \in 0 .. Len(text) |-> IF k = 0 THEN first
                                             ELSE DecodeChar(f[k - 1], text[k])]
           after == CHOOSE f : f = F(f)
           e == after[Len(text)]
<1>1. DecodeScalar(done, start, s) =
        IF e.end = "full" \/ e.bits > 4 \/ (e.acc & (2^e.bits - 1)) # 0
        THEN Err ELSE Ok(e.out, e.used)
  BY DEF DecodeScalar
<1>2. HasRead(e, done, start, s, n, Len(s) + 1)
  BY DecodeLoop
<1> HIDE DEF e
<1>3. n \in Nat /\ n <= Len(s) /\ Len(s) \in Nat /\ Len(done) \in Nat
  BY DEF Stops
<1>4. PICK t, r, N : t = n \div 4 /\ r = n % 4 /\ N = (6 * n) \div 8
  OBVIOUS
<1>5. /\ t \in Nat /\ r \in 0 .. 3 /\ n = 4 * t + r /\ N \in Nat
      /\ (6 * n) % 8 = (IF r = 0 THEN 0 ELSE 8 - 2 * r)
  BY <1>3, <1>4, InFours
<1>6. e.acc \in Nat /\ Short(e.acc) /\ e.out \in Seq(Byte)
  BY <1>2 DEF HasRead, DecodeStates
<1>7. ASSUME e.end = "full", dstLen < Len(done) + N
      PROVE  DecodeScalar(done, start, s) = Err /\ Refused(s, n, room)
  <2>1. N > room
    BY <1>3, <1>5, <1>7
  <2> QED BY <1>1, <1>4, <1>7, <2>1 DEF Refused
<1>8. ASSUME e.end = "char", Reads(e, done, start, s, n, n)
      PROVE  /\ Refused(s, n, room) => DecodeScalar(done, start, s) = Err
             /\ ~Refused(s, n, room) => DecodeScalar(done, start, s) = Ok(e.out, start + n)
             /\ Extended(e.out, done, Decoded(s, n), N)
  <2>1. /\ e.bits = (6 * n) % 8 /\ e.used = start + n /\ (n > 0 => e.acc % 64 = SextetIn(s, n))
        /\ Extended(e.out, done, Decoded(s, n), N) /\ Len(e.out) <= dstLen
    BY <1>4, <1>8 DEF Reads
  <2>2. ~(N > room)
    <3>1. Len(e.out) = Len(done) + N
      BY <2>1 DEF Extended
    <3>2. PICK x, y : x = Len(e.out) /\ y = Len(done)
      OBVIOUS
    <3>3. x = y + N /\ x <= dstLen /\ y \in Nat /\ room = dstLen - y
      BY <1>3, <2>1, <3>1, <3>2
    <3> QED BY <1>5, <3>3
  <2>3. PICK acc, v : acc = e.acc /\ v = SextetIn(s, n)
    OBVIOUS
  <2>4. (acc & 0) = 0 /\ (acc & 3) = acc % 4 /\ (acc & 15) = acc % 16
    BY <1>6, <2>3, LowMasks
  <2>5. DecodeScalar(done, start, s) =
          IF e.bits > 4 \/ (acc & (2^e.bits - 1)) # 0 THEN Err ELSE Ok(e.out, start + n)
    BY <1>1, <1>8, <2>1, <2>3
  <2>6. Refused(s, n, room) <=> r = 1 \/ (r = 2 /\ v % 16 # 0) \/ (r = 3 /\ v % 4 # 0)
    BY <1>4, <2>2, <2>3 DEF Refused
  <2>7. CASE r = 0
    <3>1. e.bits = 0 /\ 2^0 - 1 = 0
      BY <1>5, <2>1, <2>7
    <3>2. (acc & (2^e.bits - 1)) = 0
      BY <2>4, <3>1
    <3>3. ~(e.bits > 4)
      BY <3>1
    <3> QED BY <2>1, <2>5, <2>6, <2>7, <3>2, <3>3
  <2>8. CASE r = 1
    <3>1. e.bits = 6 /\ e.bits > 4
      BY <1>5, <2>1, <2>8
    <3> QED BY <2>1, <2>5, <2>6, <2>8, <3>1
  <2>9. CASE r = 2
    <3>1. e.bits = 4 /\ 2^4 - 1 = 15 /\ n > 0 /\ ~(e.bits > 4)
      BY <1>5, <2>1, <2>9
    <3>2. acc % 64 = v /\ acc \in Nat
      BY <1>6, <2>1, <2>3, <3>1
    <3>3. acc % 16 = v % 16
      BY <3>2
    <3>4. (acc & (2^e.bits - 1)) = v % 16
      BY <2>4, <3>1, <3>3
    <3> QED BY <2>1, <2>5, <2>6, <2>9, <3>1, <3>4
  <2>10. CASE r = 3
    <3>1. e.bits = 2 /\ 2^2 - 1 = 3 /\ n > 0 /\ ~(e.bits > 4)
      BY <1>5, <2>1, <2>10
    <3>2. acc % 64 = v /\ acc \in Nat
      BY <1>6, <2>1, <2>3, <3>1
    <3>3. acc % 4 = v % 4
      BY <3>2
    <3>4. (acc & (2^e.bits - 1)) = v % 4
      BY <2>4, <3>1, <3>3
    <3> QED BY <2>1, <2>5, <2>6, <2>10, <3>1, <3>4
  <2> QED BY <1>5, <2>7, <2>8, <2>9, <2>10
<1>9. \/ e.end = "full" /\ dstLen < Len(done) + N
      \/ e.end = "char" /\ Reads(e, done, start, s, n, n)
  <2>1. ~(Len(s) + 1 <= n)
    BY <1>3
  <2> QED BY <1>2, <1>4, <2>1 DEF HasRead
<1>10. CASE e.end = "full" /\ dstLen < Len(done) + N
  BY <1>7, <1>10
<1>11. CASE e.end = "char" /\ Reads(e, done, start, s, n, n)
  BY <1>4, <1>6, <1>8, <1>11
<1> QED BY <1>9, <1>10, <1>11

-----------------------------------------------------------------------------
(* Every backend gives the bytes of RFC 4648                                 *)

\* The bytes of the first k fours of letters.
Gives(o, s, k) ==
  /\ IsSeq(o) /\ Len(o) = 3 * k
  /\ \A q \in 0 .. k - 1, p \in 0 .. 2 : o[3 * q + p + 1] = OctetAt(s, q, p)

\* The first k fours of s are taken, all of them letters, and their bytes are in o.
Taken(c, o, s, k) ==
  /\ k \in Nat /\ c = 4 * k /\ 4 * k <= Len(s)
  /\ \A i \in 1 .. 4 * k : s[i] \in AlphabetChars
  /\ Gives(o, s, k)

\* What a block adds: n fours of letters, and their bytes.
BlockGives(y, n, k) ==
  /\ out' = out \o y /\ consumed' = 4 * (k + n) /\ 4 * (k + n) <= Len(src)
  /\ \A i \in 1 .. 4 * n : src[4 * k + i] \in AlphabetChars
  /\ IsSeq(y) /\ Len(y) = 3 * n
  /\ \A j \in 0 .. n - 1, p \in 0 .. 2 : y[3 * j + p + 1] = OctetAt(src, k + j, p)

\* A block that is taken has only letters and gives their bytes.
LEMMA BlockDecodes ==
  ASSUME CodecInv, src \in Seq(Byte), DecodeStep, NEW k \in Nat, consumed = 4 * k
  PROVE  \/ UNCHANGED <<consumed, out>>
         \/ \E y : \E n \in {4, 8} : BlockGives(y, n, k)
<1> DEFINE chars == Loops[loop].chars
           x == Load(chars)
           values == BlockValues(x)
           y == DecodeBlock(values)
           n == IF chars = 32 THEN 8 ELSE 4
<1>1. /\ coding = "decode" /\ loop \in 1 .. Len(Loops)
      /\ Len(src) - consumed >= Loops[loop].load
  BY DEF DecodeStep, InLoop, BlockFits
<1>2. \/ UNCHANGED <<consumed, out>>
      \/ /\ out' = out \o y /\ consumed' = consumed + chars
         /\ ~\E i \in DOMAIN values : values[i] = Invalid
  BY DEF DecodeStep
<1> SUFFICES ASSUME out' = out \o y, consumed' = consumed + chars,
                    \A i \in DOMAIN values : values[i] # Invalid
             PROVE  \E z : \E m \in {4, 8} : BlockGives(z, m, k)
  BY <1>2
<1>3. \/ /\ chars = 16 /\ Loops[loop].load = 16 /\ backend # "neon"
      \/ /\ chars = 32 /\ Loops[loop].load = 32 /\ backend \in {"neon", "avx2"}
  BY <1>1, LoopsAre, SMTT(30) DEF CodecInv, LoopNow, Wide, Narrow
<1>4. n \in {4, 8} /\ chars = 4 * n /\ chars \in Nat /\ Loops[loop].load = chars
  BY <1>3
<1>5. Len(src) \in Nat /\ 4 * k + chars <= Len(src)
  <2>1. Len(src) \in Nat
    OBVIOUS
  <2>2. Len(src) - 4 * k >= chars
    BY <1>1, <1>4
  <2> QED BY <1>4, <2>1, <2>2
<1>6. DOMAIN x = 1 .. chars
  <2> HIDE DEF chars
  <2>1. Measures(Load(chars), chars)
    BY <1>4, LoadMeasures
  <2> QED BY <2>1 DEF Measures
<1>7. \A i \in 1 .. chars : x[i] = src[4 * k + i] /\ x[i] \in Byte
  <2> HIDE DEF chars
  <2> SUFFICES ASSUME NEW i \in 1 .. chars PROVE x[i] = src[4 * k + i] /\ x[i] \in Byte
    OBVIOUS
  <2>1. 4 * k + i \in 1 .. Len(src)
    BY <1>4, <1>5
  <2>2. x[i] = IF consumed + i <= Len(src) THEN src[consumed + i] ELSE 0
    BY DEF Load
  <2>3. x[i] = src[4 * k + i]
    BY <2>1, <2>2
  <2>4. src[4 * k + i] \in Byte
    BY <2>1
  <2> QED BY <2>3, <2>4
<1>8. values = [i \in 1 .. chars |-> CharValue(x[i])]
  <2> HIDE DEF x, chars
  <2>1. \A i \in DOMAIN x : x[i] \in Byte
    BY <1>6, <1>7
  <2>2. /\ DecodeTranslate(x) = [i \in DOMAIN x |-> CharValue(x[i])]
        /\ UnsignedDecodeValues(x) = [i \in DOMAIN x |-> CharValue(x[i])]
    BY <2>1, VectorValues
  <2> QED BY <1>6, <2>2 DEF BlockValues
<1> HIDE DEF values
<1>9. y = DecodeBlock(values)
  OBVIOUS
<1> HIDE DEF x, y, chars, n
<1>10. Measures(values, chars)
  <2>1. values = [i \in 1 .. chars |-> values[i]]
    BY <1>8
  <2> QED BY <1>4, <2>1, Measured
<1>11. ASSUME NEW i \in 1 .. chars
       PROVE  /\ src[4 * k + i] \in AlphabetChars /\ values[i] \in 0 .. 63
              /\ values[i] = SextetIn(src, 4 * k + i)
  <2>1. PICK j, c : j = 4 * k + i /\ c = src[j]
    OBVIOUS
  <2>2. c = x[i] /\ c \in Byte /\ j <= Len(src) /\ values[i] = CharValue(c)
    <3>1. 4 * k + i <= Len(src)
      BY <1>4, <1>5
    <3> QED BY <1>7, <1>8, <2>1, <3>1
  <2>3. CharValue(c) # Invalid
    <3>1. i \in DOMAIN values
      BY <1>8
    <3> QED BY <2>2, <3>1
  <2>4. c \in AlphabetChars /\ CharValue(c) \in 0 .. 63
    BY <2>2, <2>3, CharValueIs
  <2>5. SextetIn(src, j) = CharValue(c)
    BY <2>1, <2>2, <2>3, Zenon DEF SextetIn
  <2> QED BY <2>1, <2>2, <2>4, <2>5, Zenon
<1>12. Measures(y, 3 * n) /\ BlockBytes(y, values, n)
  <2>1. Len(values) = chars /\ IsSeq(values)
    BY <1>10 DEF Measures
  <2>2. CASE chars = 16 /\ backend # "neon"
    <3>1. n = 4 /\ 3 * n = 12
      BY <2>2 DEF n
    <3>2. y = MergeBits(values) \/ y = DecodeBlock16(values)
      BY <1>9, <2>1, <2>2 DEF DecodeBlock
    <3>3. \A i \in 1 .. 16 : values[i] \in 0 .. 63
      BY <1>11, <2>2
    <3>4. BlockBytes(y, values, 4)
      BY <3>2, <3>3, WasmBytes, X86Bytes
    <3>5. Measures(y, 12)
      BY <3>2, DwordsMeasure, DecodedMeasures
    <3> QED BY <3>1, <3>4, <3>5
  <2>3. CASE chars = 32 /\ backend \in {"neon", "avx2"}
    <3>1. n = 8 /\ 3 * n = 24
      BY <2>3 DEF n
    <3>2. y = NeonDecode(values) \/ y = DecodeBlock32(values)
      BY <1>9, <2>1, <2>3 DEF DecodeBlock
    <3>3. \A i \in 1 .. 32 : values[i] \in 0 .. 63
      BY <1>11, <2>3
    <3>4. BlockBytes(y, values, 8)
      BY <2>1, <2>3, <3>2, <3>3, NeonBytes, X86Bytes, ZenonT(40)
    <3>5. Measures(y, 24)
      BY <3>2, DwordsMeasure, DecodedMeasures
    <3> QED BY <3>1, <3>4, <3>5
  <2> QED BY <1>3, <2>2, <2>3
<1>13. 4 * (k + n) <= Len(src) /\ consumed' = 4 * (k + n)
  BY <1>4, <1>5
<1>14. \A i \in 1 .. 4 * n : src[4 * k + i] \in AlphabetChars
  BY <1>4, <1>11
<1>15. ASSUME NEW j \in 0 .. n - 1, NEW p \in 0 .. 2
       PROVE  y[3 * j + p + 1] = OctetAt(src, k + j, p)
  <2>1. PICK q : q = k + j
    OBVIOUS
  <2>2. y[3 * j + p + 1] =
          OctetOf(values[4 * j + 1], values[4 * j + 2], values[4 * j + 3], values[4 * j + 4], p)
    BY <1>12 DEF BlockBytes
  <2>3. /\ 4 * j + 1 \in 1 .. chars /\ 4 * j + 2 \in 1 .. chars
        /\ 4 * j + 3 \in 1 .. chars /\ 4 * j + 4 \in 1 .. chars
        /\ 4 * k + (4 * j + 1) = 4 * q + 1 /\ 4 * k + (4 * j + 2) = 4 * q + 2
        /\ 4 * k + (4 * j + 3) = 4 * q + 3 /\ 4 * k + (4 * j + 4) = 4 * q + 4
    BY <1>4, <2>1
  <2>4. /\ values[4 * j + 1] = SextetIn(src, 4 * q + 1)
        /\ values[4 * j + 2] = SextetIn(src, 4 * q + 2)
        /\ values[4 * j + 3] = SextetIn(src, 4 * q + 3)
        /\ values[4 * j + 4] = SextetIn(src, 4 * q + 4)
    BY <1>11, <2>3
  <2> QED BY <2>1, <2>2, <2>4, Zenon DEF OctetAt
<1>16. BlockGives(y, n, k)
  BY <1>12, <1>13, <1>14, <1>15 DEF BlockGives, Measures
<1> QED BY <1>4, <1>16

\* A block keeps what is taken right.
LEMMA TakesMore ==
  ASSUME NEW k \in Nat, Taken(consumed, out, src, k), src \in Seq(Byte), NEW y, NEW n \in {4, 8},
         BlockGives(y, n, k), NEW m, m = k + n
  PROVE  Taken(consumed', out', src, m)
<1>1. /\ out' = out \o y /\ consumed' = 4 * m /\ 4 * m <= Len(src) /\ m \in Nat
      /\ \A i \in 1 .. 4 * n : src[4 * k + i] \in AlphabetChars
      /\ IsSeq(y) /\ Len(y) = 3 * n
      /\ \A j \in 0 .. n - 1, p \in 0 .. 2 : y[3 * j + p + 1] = OctetAt(src, k + j, p)
  BY DEF BlockGives
<1>2. /\ \A i \in 1 .. 4 * k : src[i] \in AlphabetChars
      /\ IsSeq(out) /\ Len(out) = 3 * k
      /\ \A q \in 0 .. k - 1, p \in 0 .. 2 : out[3 * q + p + 1] = OctetAt(src, q, p)
  BY DEF Taken, Gives
<1>3. ASSUME NEW i \in 1 .. 4 * m PROVE src[i] \in AlphabetChars
  <2>1. CASE i <= 4 * k
    BY <1>2, <2>1
  <2>2. CASE ~(i <= 4 * k)
    <3>1. i - 4 * k \in 1 .. 4 * n /\ 4 * k + (i - 4 * k) = i
      BY <2>2
    <3>2. src[4 * k + (i - 4 * k)] \in AlphabetChars
      BY <1>1, <3>1
    <3> QED BY <3>1, <3>2
  <2> QED BY <2>1, <2>2
<1>4. IsSeq(out') /\ Len(out') = 3 * m
  BY <1>1, <1>2, ConcatIs
<1>5. ASSUME NEW q \in 0 .. m - 1, NEW p \in 0 .. 2
      PROVE  out'[3 * q + p + 1] = OctetAt(src, q, p)
  <2>1. PICK i : i = 3 * q + p + 1
    OBVIOUS
  <2>2. i \in 1 .. Len(out) + Len(y)
    BY <1>1, <1>2, <2>1
  <2>3. out'[i] = IF i <= Len(out) THEN out[i] ELSE y[i - Len(out)]
    BY <1>1, <1>2, <2>2, ConcatAt
  <2>4. CASE q < k
    <3>1. i <= Len(out) /\ q \in 0 .. k - 1
      BY <1>2, <2>1, <2>4
    <3>2. out[3 * q + p + 1] = OctetAt(src, q, p)
      BY <1>2, <3>1
    <3> QED BY <2>1, <2>3, <3>1, <3>2
  <2>5. CASE ~(q < k)
    <3>1. PICK j : j = q - k
      OBVIOUS
    <3>2. /\ j \in 0 .. n - 1 /\ k + j = q /\ ~(i <= Len(out))
          /\ i - Len(out) = 3 * j + p + 1
      BY <1>1, <1>2, <2>1, <2>5, <3>1
    <3>3. y[3 * j + p + 1] = OctetAt(src, k + j, p)
      BY <1>1, <3>2
    <3> QED BY <2>1, <2>3, <3>2, <3>3
  <2> QED BY <2>4, <2>5
<1> QED BY <1>1, <1>3, <1>4, <1>5 DEF Taken, Gives

\* The invariant: what is taken is right, and so is the result.
BytesInv ==
  /\ CodecInv /\ src \in Seq(Byte)
  /\ coding = "decode" =>
       /\ \E k \in Nat : Taken(consumed, out, src, k)
       /\ result # Pending => result = ReferenceDecode(src, dstLen)

\* They are the letters that come after, with the same bytes.
LEMMA RestGives ==
  ASSUME src \in Seq(Byte), NEW k \in Nat, consumed = 4 * k, 4 * k <= Len(src)
  PROVE  /\ Rest \in Seq(Byte) /\ Len(Rest) = Len(src) - 4 * k
         /\ \A i \in 1 .. Len(src) - 4 * k : Rest[i] = src[4 * k + i]
         /\ \A i \in Nat \ {0}, j \in Nat \ {0} : j = 4 * k + i => SextetIn(Rest, i) = SextetIn(src, j)
         /\ \A q \in Nat, p \in 0 .. 2 : OctetAt(Rest, q, p) = OctetAt(src, k + q, p)
<1>1. Len(src) \in Nat /\ 4 * k \in Nat
  OBVIOUS
<1>2. /\ Rest \in Seq(Byte) /\ Len(Rest) = Len(src) - 4 * k
      /\ \A i \in 1 .. Len(src) - 4 * k : Rest[i] = src[4 * k + i]
  <2>1. PICK c : c = 4 * k
    OBVIOUS
  <2>2. /\ Rest \in Seq(Byte) /\ Len(Rest) = Len(src) - c
        /\ \A i \in 1 .. Len(src) - c : Rest[i] = src[c + i]
    BY <1>1, <2>1, RestAre
  <2> QED BY <2>1, <2>2
<1>3. ASSUME NEW i \in Nat \ {0}, NEW j \in Nat \ {0}, j = 4 * k + i
      PROVE  SextetIn(Rest, i) = SextetIn(src, j)
  <2>1. i <= Len(Rest) <=> j <= Len(src)
    BY <1>1, <1>2, <1>3
  <2>2. i <= Len(Rest) => Rest[i] = src[j]
    BY <1>1, <1>2, <1>3, SMTT(40)
  <2> QED BY <2>1, <2>2 DEF SextetIn
<1>4. ASSUME NEW q \in Nat, NEW p \in 0 .. 2
      PROVE  OctetAt(Rest, q, p) = OctetAt(src, k + q, p)
  <2>1. PICK t : t = k + q
    OBVIOUS
  <2>2. /\ 4 * q + 1 \in Nat \ {0} /\ 4 * q + 2 \in Nat \ {0} /\ 4 * q + 3 \in Nat \ {0}
        /\ 4 * q + 4 \in Nat \ {0} /\ 4 * t + 1 \in Nat \ {0} /\ 4 * t + 2 \in Nat \ {0}
        /\ 4 * t + 3 \in Nat \ {0} /\ 4 * t + 4 \in Nat \ {0}
        /\ 4 * t + 1 = 4 * k + (4 * q + 1) /\ 4 * t + 2 = 4 * k + (4 * q + 2)
        /\ 4 * t + 3 = 4 * k + (4 * q + 3) /\ 4 * t + 4 = 4 * k + (4 * q + 4)
    BY <2>1
  <2>3. /\ SextetIn(Rest, 4 * q + 1) = SextetIn(src, 4 * t + 1)
        /\ SextetIn(Rest, 4 * q + 2) = SextetIn(src, 4 * t + 2)
        /\ SextetIn(Rest, 4 * q + 3) = SextetIn(src, 4 * t + 3)
        /\ SextetIn(Rest, 4 * q + 4) = SextetIn(src, 4 * t + 4)
    <3>1. SextetIn(Rest, 4 * q + 1) = SextetIn(src, 4 * t + 1)
      BY <1>3, <2>2, Zenon
    <3>2. SextetIn(Rest, 4 * q + 2) = SextetIn(src, 4 * t + 2)
      BY <1>3, <2>2, Zenon
    <3>3. SextetIn(Rest, 4 * q + 3) = SextetIn(src, 4 * t + 3)
      BY <1>3, <2>2, Zenon
    <3>4. SextetIn(Rest, 4 * q + 4) = SextetIn(src, 4 * t + 4)
      BY <1>3, <2>2, ZenonT(40)
    <3> QED BY <3>1, <3>2, <3>3, <3>4, Zenon
  <2> QED BY <2>1, <2>3, Zenon DEF OctetAt
<1> QED BY <1>2, <1>3, <1>4

\* The text ends where what the blocks leave ends, and is refused with it.
LEMMA RestStops ==
  ASSUME src \in Seq(Byte), dstLen \in Nat, NEW k \in Nat, Taken(consumed, out, src, k),
         NEW n, Stops(Rest, n), NEW room, room = dstLen - Len(out), NEW m, m = 4 * k + n
  PROVE  /\ Stops(src, m) /\ n \in Nat
         /\ (6 * m) \div 8 = 3 * k + ((6 * n) \div 8)
         /\ Refused(Rest, n, room) <=> Refused(src, m, dstLen)
<1>1. /\ consumed = 4 * k /\ 4 * k <= Len(src) /\ Len(out) = 3 * k /\ Len(src) \in Nat
      /\ \A i \in 1 .. 4 * k : src[i] \in AlphabetChars
  BY DEF Taken, Gives
<1>2. /\ Rest \in Seq(Byte) /\ Len(Rest) = Len(src) - 4 * k
      /\ \A i \in 1 .. Len(src) - 4 * k : Rest[i] = src[4 * k + i]
      /\ \A i \in Nat \ {0}, j \in Nat \ {0} : j = 4 * k + i => SextetIn(Rest, i) = SextetIn(src, j)
  BY <1>1, RestGives
<1>3. /\ n \in 0 .. Len(Rest) /\ \A i \in 1 .. n : Rest[i] \in AlphabetChars
      /\ n = Len(Rest) \/ Rest[n + 1] \notin AlphabetChars
  BY DEF Stops
<1>4. PICK L : L = Len(src)
  OBVIOUS
<1>5. n \in Nat /\ n <= L - 4 * k /\ L \in Nat /\ m \in 0 .. L
      /\ (n = Len(Rest) <=> m = L)
  BY <1>1, <1>2, <1>3, <1>4, SMTT(30)
<1>6. ASSUME NEW i \in 1 .. m PROVE src[i] \in AlphabetChars
  <2>1. CASE i <= 4 * k
    BY <1>1, <2>1
  <2>2. CASE ~(i <= 4 * k)
    <3>1. PICK j : j = i - 4 * k
      OBVIOUS
    <3>2. j \in 1 .. n /\ j \in 1 .. L - 4 * k /\ 4 * k + j = i
      BY <1>5, <2>2, <3>1
    <3>3. Rest[j] = src[4 * k + j] /\ Rest[j] \in AlphabetChars
      BY <1>2, <1>3, <1>4, <3>2
    <3> QED BY <3>2, <3>3
  <2> QED BY <2>1, <2>2
<1>7. m = L \/ src[m + 1] \notin AlphabetChars
  <2> SUFFICES ASSUME m # L PROVE src[m + 1] \notin AlphabetChars
    OBVIOUS
  <2>1. PICK j : j = n + 1
    OBVIOUS
  <2>2. j \in 1 .. L - 4 * k /\ 4 * k + j = m + 1
    BY <1>5, <2>1
  <2>3. Rest[j] = src[4 * k + j]
    BY <1>2, <1>4, <2>2
  <2> QED BY <1>3, <1>5, <2>1, <2>2, <2>3
<1>8. Stops(src, m)
  BY <1>4, <1>5, <1>6, <1>7 DEF Stops
<1>9. PICK t, r, M, N : t = n \div 4 /\ r = n % 4 /\ M = (6 * n) \div 8 /\ N = (6 * m) \div 8
  OBVIOUS
<1>10. /\ t \in Nat /\ r \in 0 .. 3 /\ n = 4 * t + r /\ M \in Nat
       /\ M = 3 * t + (IF r = 0 THEN 0 ELSE r - 1)
  BY <1>5, <1>9, InFours
<1>11. m % 4 = r /\ N = 3 * k + M
  <2>1. PICK u, w : u = m \div 4 /\ w = m % 4
    OBVIOUS
  <2>2. m \in Nat
    BY <1>5
  <2>3. /\ u \in Nat /\ w \in 0 .. 3 /\ m = 4 * u + w
        /\ N = 3 * u + (IF w = 0 THEN 0 ELSE w - 1)
    BY <1>9, <2>1, <2>2, InFours
  <2>4. u = k + t /\ w = r
    BY <1>10, <2>3
  <2> QED BY <1>10, <2>1, <2>3, <2>4
<1>12. r # 0 => SextetIn(Rest, n) = SextetIn(src, m)
  <2> SUFFICES ASSUME r # 0 PROVE SextetIn(Rest, n) = SextetIn(src, m)
    OBVIOUS
  <2>1. n \in Nat \ {0} /\ m \in Nat \ {0}
    BY <1>5, <1>10
  <2> QED BY <1>2, <2>1
<1>13. M > room <=> N > dstLen
  BY <1>1, <1>10, <1>11
<1>14. PICK a, b : a = SextetIn(Rest, n) /\ b = SextetIn(src, m)
  OBVIOUS
<1>15. Refused(Rest, n, room) <=>
         r = 1 \/ M > room \/ (r = 2 /\ a % 16 # 0) \/ (r = 3 /\ a % 4 # 0)
  BY <1>9, <1>14, Zenon DEF Refused
<1>16. Refused(src, m, dstLen) <=>
         r = 1 \/ N > dstLen \/ (r = 2 /\ b % 16 # 0) \/ (r = 3 /\ b % 4 # 0)
  BY <1>9, <1>11, <1>14, Zenon DEF Refused
<1>17. r # 0 => a = b
  BY <1>12, <1>14
<1>18. Refused(Rest, n, room) <=> Refused(src, m, dstLen)
  <2>1. r = 0 \/ r = 1 \/ r = 2 \/ r = 3
    BY <1>10
  <2> QED BY <1>13, <1>15, <1>16, <1>17, <2>1
<1> QED BY <1>5, <1>8, <1>9, <1>11, <1>18

\* Bytes are given one at a time, three for a four.
LEMMA GivesAt ==
  ASSUME NEW s, NEW k \in Nat, NEW o, Gives(o, s, k), NEW i \in 1 .. 3 * k,
         NEW q, q = (i - 1) \div 3, NEW p, p = (i - 1) % 3
  PROVE  q \in Nat /\ p \in 0 .. 2 /\ i = 3 * q + p + 1 /\ o[i] = OctetAt(s, q, p)
<1>1. q \in 0 .. k - 1 /\ p \in 0 .. 2 /\ i = 3 * q + p + 1
  OBVIOUS
<1>2. o[3 * q + p + 1] = OctetAt(s, q, p)
  BY <1>1 DEF Gives
<1> QED BY <1>1, <1>2

\* Whatever the blocks have taken, the scalar loop ends with what the reference gives.
LEMMA BytesEnd ==
  ASSUME BytesInv, coding = "decode"
  PROVE  DecodeScalar(out, consumed, Rest) = ReferenceDecode(src, dstLen)
<1>1. CodecInv /\ src \in Seq(Byte) /\ dstLen \in Nat /\ Len(out) <= dstLen
  BY DEF BytesInv, CodecInv
<1>2. PICK k \in Nat : Taken(consumed, out, src, k)
  BY DEF BytesInv
<1>3. /\ consumed = 4 * k /\ 4 * k <= Len(src) /\ Gives(out, src, k)
      /\ IsSeq(out) /\ Len(out) = 3 * k
  BY <1>2 DEF Taken, Gives
<1>4. /\ Rest \in Seq(Byte)
      /\ \A q \in Nat, p \in 0 .. 2 : OctetAt(Rest, q, p) = OctetAt(src, k + q, p)
  BY <1>1, <1>3, RestGives
<1>5. PICK n : Stops(Rest, n)
  BY <1>4, StopsOnce
<1>6. PICK m, room : m = 4 * k + n /\ room = dstLen - Len(out)
  OBVIOUS
<1>7. PICK M, N : M = (6 * n) \div 8 /\ N = (6 * m) \div 8
  OBVIOUS
<1>8. /\ Stops(src, m) /\ n \in Nat /\ N = 3 * k + M
      /\ Refused(Rest, n, room) <=> Refused(src, m, dstLen)
  BY <1>1, <1>2, <1>5, <1>6, <1>7, RestStops, ZenonT(40)
<1>9. M \in Nat /\ N \in Nat
  <2>1. M \in Nat
    BY <1>7, <1>8, InFours
  <2> QED BY <1>8, <2>1
<1>10. out \in Seq(Byte)
  <2>1. ASSUME NEW i \in 1 .. 3 * k PROVE out[i] \in Byte
    <3>1. PICK q, p : q = (i - 1) \div 3 /\ p = (i - 1) % 3
      OBVIOUS
    <3>2. q \in Nat /\ p \in 0 .. 2 /\ out[i] = OctetAt(src, q, p)
      BY <1>3, <3>1, GivesAt
    <3> QED BY <1>1, <3>2, SextetsIn
  <2>2. PICK S : out \in Seq(S)
    BY <1>3 DEF IsSeq
  <2>3. 3 * k \in Nat /\ Len(out) = 3 * k
    BY <1>3
  <2>4. out \in [1 .. 3 * k -> Byte]
    <3>1. out = [i \in 1 .. 3 * k |-> out[i]]
      BY <2>2, <2>3
    <3> QED BY <2>1, <3>1
  <2> QED BY <2>3, <2>4
<1>11. consumed \in Nat
  BY <1>3
<1>12. PICK result1 : result1 = DecodeScalar(out, consumed, Rest)
  OBVIOUS
<1>13. /\ Refused(Rest, n, room) => result1 = Err
       /\ ~Refused(Rest, n, room) =>
            \E o \in Seq(Byte) : /\ result1 = Ok(o, consumed + n)
                                 /\ Extended(o, out, Decoded(Rest, n), M)
  BY <1>1, <1>4, <1>5, <1>6, <1>7, <1>10, <1>11, <1>12, ScalarDecodes
<1>14. ReferenceDecode(src, dstLen) =
         IF Refused(src, m, dstLen) THEN Err ELSE Ok(Decoded(src, m), m)
  BY <1>1, <1>8, ReferenceIs
<1>15. PICK T, U : T = Decoded(src, m) /\ U = Decoded(Rest, n)
  OBVIOUS
<1>16. /\ Measures(T, N)
       /\ \A q \in Nat, p \in 0 .. 2 : 3 * q + p + 1 <= N => T[3 * q + p + 1] = OctetAt(src, q, p)
  BY <1>1, <1>7, <1>8, <1>15, DecodedIs DEF Stops
<1>17. \A q \in Nat, p \in 0 .. 2 : 3 * q + p + 1 <= M => U[3 * q + p + 1] = OctetAt(Rest, q, p)
  BY <1>4, <1>5, <1>7, <1>15, DecodedIs DEF Stops
<1>18. ASSUME NEW o \in Seq(Byte), Extended(o, out, U, M) PROVE o = T
  <2>1. /\ IsSeq(o) /\ Len(o) = N
        /\ \A i \in 1 .. 3 * k : o[i] = out[i]
        /\ \A i \in 1 .. M : o[3 * k + i] = U[i]
    BY <1>3, <1>8, <1>18 DEF Extended
  <2>2. ASSUME NEW i \in 1 .. N PROVE o[i] = T[i]
    <3>1. CASE i <= 3 * k
      <4>1. i \in 1 .. 3 * k
        BY <3>1
      <4>2. PICK q, p : q = (i - 1) \div 3 /\ p = (i - 1) % 3
        OBVIOUS
      <4>3. q \in Nat /\ p \in 0 .. 2 /\ i = 3 * q + p + 1 /\ out[i] = OctetAt(src, q, p)
        BY <1>3, <4>1, <4>2, GivesAt, SMTT(30)
      <4>4. T[3 * q + p + 1] = OctetAt(src, q, p)
        <5>1. 3 * q + p + 1 <= N
          BY <1>9, <4>3
        <5> QED BY <1>16, <4>3, <5>1
      <4> QED BY <2>1, <4>1, <4>3, <4>4
    <3>2. CASE ~(i <= 3 * k)
      <4>1. PICK j : j = i - 3 * k
        OBVIOUS
      <4>2. j \in 1 .. M /\ 3 * k + j = i
        BY <1>8, <1>9, <3>2, <4>1
      <4>3. PICK q, p : q = (j - 1) \div 3 /\ p = (j - 1) % 3
        OBVIOUS
      <4>4. q \in Nat /\ p \in 0 .. 2 /\ j = 3 * q + p + 1 /\ 3 * q + p + 1 <= M
        BY <1>9, <4>2, <4>3
      <4>5. U[j] = OctetAt(src, k + q, p)
        BY <1>4, <1>17, <4>4
      <4>6. PICK t : t = k + q
        OBVIOUS
      <4>7. t \in Nat /\ 3 * t + p + 1 = i /\ 3 * t + p + 1 <= N
        BY <1>9, <4>2, <4>4, <4>6
      <4>8. T[3 * t + p + 1] = OctetAt(src, t, p)
        BY <1>16, <4>4, <4>7
      <4>9. o[3 * k + j] = U[j]
        BY <2>1, <4>2
      <4> QED BY <4>2, <4>5, <4>6, <4>7, <4>8, <4>9
    <3> QED BY <3>1, <3>2
  <2>3. IsSeq(T) /\ Len(T) = N
    BY <1>16 DEF Measures
  <2> QED BY <2>1, <2>2, <2>3, SameText
<1>19. consumed + n = m
  BY <1>3, <1>6
<1>20. CASE Refused(Rest, n, room)
  BY <1>8, <1>12, <1>13, <1>14, <1>20
<1>21. CASE ~Refused(Rest, n, room)
  <2>1. PICK o \in Seq(Byte) : result1 = Ok(o, m) /\ Extended(o, out, U, M)
    BY <1>13, <1>15, <1>19, <1>21
  <2>2. o = T
    BY <1>18, <2>1
  <2> QED BY <1>8, <1>12, <1>14, <1>15, <1>21, <2>1, <2>2
<1> QED BY <1>20, <1>21

\* At first nothing is taken.
LEMMA BytesStart == CodecInit => BytesInv
<1> SUFFICES ASSUME CodecInit PROVE BytesInv
  OBVIOUS
<1>1. CodecInv /\ src \in Seq(Byte)
  BY TextStarts DEF TextInv
<1>2. consumed = 0 /\ out = <<>> /\ result = Pending
  BY DEF CodecInit
<1>3. Gives(<<>>, src, 0)
  BY EmptyText DEF Gives
<1>4. Taken(0, <<>>, src, 0)
  <2>1. 0 \in Nat /\ 4 * 0 = 0 /\ 1 .. 0 = {} /\ 0 <= Len(src)
    BY <1>1
  <2> QED BY <1>3, <2>1 DEF Taken
<1> QED BY <1>1, <1>2, <1>4 DEF BytesInv

\* Every step keeps what is taken, and the result, right.
LEMMA BytesNext ==
  ASSUME BytesInv, [CodecNext]_codecVars
  PROVE  BytesInv'
<1>1. CodecInv /\ src \in Seq(Byte)
  BY DEF BytesInv
<1>2. CodecInv'
  BY <1>1, CodecNextInv
<1>3. src' = src /\ coding' = coding /\ dstLen' = dstLen
  BY DEF CodecNext, codecVars, StartEncode, StartDecode, EncodeStep, DecodeStep, LeaveLoop,
         ScalarTail
<1>4. CASE coding # "decode"
  BY <1>1, <1>2, <1>3, <1>4 DEF BytesInv
<1>5. CASE coding = "decode"
  <2>1. PICK k \in Nat : Taken(consumed, out, src, k)
    BY <1>5 DEF BytesInv
  <2>2. \E j \in Nat : Taken(consumed', out', src, j)
    <3>1. CASE DecodeStep
      <4>1. consumed = 4 * k
        BY <2>1 DEF Taken
      <4>2. CASE UNCHANGED <<consumed, out>>
        BY <2>1, <4>2
      <4>3. ASSUME NEW y, NEW n \in {4, 8}, BlockGives(y, n, k)
            PROVE  \E j \in Nat : Taken(consumed', out', src, j)
        <5>1. PICK j : j = k + n
          OBVIOUS
        <5>2. j \in Nat
          BY <5>1
        <5>3. Taken(consumed', out', src, j)
          BY <1>1, <2>1, <4>3, <5>1, TakesMore
        <5> QED BY <5>2, <5>3
      <4> QED BY <1>1, <3>1, <4>1, <4>2, <4>3, BlockDecodes
    <3>2. CASE UNCHANGED <<consumed, out>>
      BY <2>1, <3>2
    <3> QED BY <1>5, <3>1, <3>2 DEF CodecNext, codecVars, StartEncode, StartDecode, EncodeStep,
              LeaveLoop, ScalarTail
  <2>3. result' # Pending => result' = ReferenceDecode(src, dstLen)
    <3>1. CASE ScalarTail
      <4>1. result' = DecodeScalar(out, consumed, Rest)
        BY <1>5, <3>1 DEF ScalarTail
      <4>2. DecodeScalar(out, consumed, Rest) = ReferenceDecode(src, dstLen)
        BY <1>5, BytesEnd
      <4> QED BY <4>1, <4>2
    <3>2. CASE UNCHANGED result
      BY <1>5, <3>2 DEF BytesInv
    <3> QED BY <1>5, <3>1, <3>2 DEF CodecNext, codecVars, StartEncode, StartDecode, EncodeStep,
              DecodeStep, LeaveLoop
  <2>4. (\E j \in Nat : Taken(consumed, out, src, j))'
    BY <1>3, <2>2, Zenon
  <2>5. (result # Pending => result = ReferenceDecode(src, dstLen))'
    BY <1>3, <2>3, Zenon DEF Pending
  <2> QED BY <1>1, <1>2, <1>3, <2>4, <2>5 DEF BytesInv
<1> QED BY <1>4, <1>5

\* For every backend, every input and every capacity: decoding gives the bytes of
\* RFC 4648 and stops where the letters stop, and an error is returned exactly when
\* the letters are no text or their bytes do not fit.
THEOREM DecodesTheText == CodecSpec => []DecodesAsReference
<1>1. BytesInv => DecodesAsReference
  BY DEF BytesInv, DecodesAsReference
<1> QED BY <1>1, BytesStart, BytesNext, PTL DEF CodecSpec
=============================================================================
