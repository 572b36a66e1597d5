--------------------------- MODULE FillPool_proofs ---------------------------
(***************************************************************************)
(* Proofs about FillPool: its safety for every number of helpers, lanes    *)
(* and passes, and every width of generation from one bit up.              *)
(***************************************************************************)
EXTENDS FillPool, FiniteSetTheorems, TLAPS

-----------------------------------------------------------------------------
(* The inductive invariant, in parts *)

Now == step[Leader]
Lost == {h \in Helpers : pc[h] = "lost"}
Arrived == {h \in Helpers : pc[h] = "park" /\ step[h] = Now}

\* The leader has not stored to stop, nor bumped generation.
Running == {"spawn", "charge", "drain", "fill", "loadArrived", "loadLost",
            "decide", "abortStop", "trace", "reset", "publish"}
\* The counters are those of the current step.
Counting == Running \ {"publish"}
\* The barrier has been passed with nobody lost.
Passed == {"trace", "reset", "publish"}

StopOK ==
  /\ pc[Leader] \in Running => ~stop
  /\ \A w \in Workers : knowsStop[w] => stop
  /\ \A i \in DOMAIN generation : generation[i].stop => stop
  /\ pc[Leader] \in {"abortBump", "dropBump"} => knowsStop[Leader]

\* One message for each step that is complete, then those that carry stop.
MessagesOK ==
  /\ Len(generation) >= Now + 1
  /\ pc[Leader] \in Running => Len(generation) = Now + 1
  /\ \A i \in DOMAIN generation :
       IF i <= Now + 1 THEN Before(i - 1) \subseteq generation[i].hb
       ELSE generation[i].stop

\* No view is ahead of what has been computed.
ViewsOK ==
  /\ \A w \in Workers : hb[w] \subseteq filled
  /\ arrivedHb \subseteq filled
  /\ \A i \in DOMAIN generation : generation[i].hb \subseteq filled

LeaderOK ==
  /\ Before(Now) \subseteq hb[Leader]
  /\ pc[Leader] \in Passed => Before(Now + 1) \subseteq hb[Leader]
  /\ pc[Leader] \in Running => Now < Steps
  /\ pc[Leader] \in {"spawn", "charge"} => Now = 0

\* A helper works in the leader's step, or waits in it or in the one before.
HelperOK(h) ==
  /\ pc[h] = "unborn" => pc[Leader] = "spawn"
  /\ pc[h] \in {"unborn", "refused"} => hb[h] = {}
  /\ pc[h] \in {"unborn", "drain", "fill", "arrive"} =>
       /\ step[h] = Now
       /\ step[h] < Steps
       /\ lastRead[h] >= step[h] + 1
       /\ count[h] = generation[step[h] + 1].val
       /\ Before(step[h]) \subseteq hb[h]
  /\ pc[h] = "park" =>
       /\ step[h] = Now \/ step[h] + 1 = Now
       /\ lastRead[h] >= step[h] + 1
       /\ count[h] = WrapInc(generation[step[h] + 1].val)
       /\ Before(step[h]) \subseteq hb[h]
  /\ pc[h] = "check" =>
       \/ knowsStop[h]
       \/ /\ step[h] + 1 = Now
          /\ lastRead[h] = step[h] + 2
          /\ count[h] = generation[step[h] + 2].val
          /\ Before(step[h] + 1) \subseteq hb[h]

HelpersOK == \A h \in Helpers : HelperOK(h)

\* What the counters of the barrier count.
LostOK ==
  lost = Cardinality(Lost)
           + (IF pc[Leader] \in {"spawn", "charge"} THEN 0 ELSE Cardinality(Refused))

ArrivedOK ==
  /\ pc[Leader] \in Counting =>
       /\ arrived = Cardinality(Arrived)
       /\ \A h \in Arrived : hb[h] \subseteq arrivedHb
  /\ pc[Leader] = "publish" => arrived = 0
  /\ pc[Leader] = "loadLost" =>
       /\ got <= arrived
       /\ got = arrived => arrivedHb \subseteq hb[Leader]
  /\ pc[Leader] \in {"decide", "trace", "reset"} => arrivedHb \subseteq hb[Leader]

BarrierOK ==
  /\ pc[Leader] \in {"decide", "abortStop"} =>
       \A h \in Helpers : h \in Refused \cup Lost \cup Arrived
  /\ pc[Leader] \in Passed => \A h \in Helpers : h \in Refused \cup Arrived

\* A lane that was claimed is computed, or held by a worker that is computing it
\* or panicked in it.
Accounted(l) ==
  \E w \in Workers :
    /\ step[w] = Now
    /\ \/ <<Now, l>> \in hb[w]
       \/ lane[w] = l /\ pc[w] \in {"fill", "bail", "lost"}

LanesOK ==
  /\ \A w \in Workers : pc[w] = "fill" => lane[w] < nextLane
  /\ \A v, w \in Workers :
       v # w /\ pc[v] = "fill" /\ pc[w] = "fill" => lane[v] # lane[w]
  /\ pc[Leader] \in Counting =>
       \A l \in 0 .. Lanes - 1 : l < nextLane => Accounted(l)
  /\ pc[Leader] \in {"loadArrived", "loadLost", "decide", "trace", "reset"} =>
       nextLane >= Lanes
  /\ pc[Leader] = "publish" => nextLane = 0

\* Nothing of a later step is computed, and of this step only lanes that were
\* claimed and are not held.
FilledOK ==
  /\ filled \subseteq Before(Now + 1)
  /\ pc[Leader] # "publish" =>
       \A l \in 0 .. Lanes - 1 :
         <<Now, l>> \in filled =>
           l < nextLane /\ \A w \in Workers : pc[w] = "fill" => lane[w] # l

\* The callback has been shown the passes that are complete.
TracedOK ==
  /\ pc[Leader] = "trace" => Now % SyncPoints = SyncPoints - 1
  /\ pc[Leader] \in Running \ {"reset", "publish"} =>
       SyncPoints * traced <= Now /\ Now < SyncPoints * traced + SyncPoints
  /\ pc[Leader] \in {"reset", "publish"} =>
       SyncPoints * traced <= Now + 1 /\ Now + 1 < SyncPoints * traced + SyncPoints
  /\ Now = Steps => traced = Passes

EndOK ==
  /\ pc[Leader] \in {"abortStop", "abortBump", "dropStop", "dropBump", "join"} =>
       unwinding \/ Lost # {} \/ Now = Steps
  /\ pc[Leader] = "returned" => Now = Steps
  /\ pc[Leader] \in {"returned", "unwound"} =>
       \A h \in Helpers : pc[h] \in {"refused", "lost", "done"}

Inv ==
  /\ TypeOK
  /\ StopOK
  /\ MessagesOK
  /\ ViewsOK
  /\ LeaderOK
  /\ HelpersOK
  /\ LostOK
  /\ ArrivedOK
  /\ BarrierOK
  /\ LanesOK
  /\ FilledOK
  /\ TracedOK
  /\ EndOK

-----------------------------------------------------------------------------
(* Segments *)

LEMMA ConstantsOK ==
  /\ Steps \in Nat /\ Steps = 4 * Passes /\ Steps >= 4
  /\ Lanes \in Nat /\ Lanes >= 1 /\ Passes \in Nat
  /\ Leader \in Workers /\ Leader \notin Helpers /\ Helpers \subseteq Workers
  /\ \A w \in Workers : w = Leader \/ w \in Helpers
BY FillPoolAssumption DEF Steps, SyncPoints, Workers

LEMMA BeforeStep ==
  ASSUME NEW n \in Nat
  PROVE  /\ Before(n) \subseteq Segment
         /\ Before(n) \subseteq Before(n + 1)
         /\ \A l : <<n, l>> \notin Before(n)
         /\ n < Steps => \A l \in 0 .. Lanes - 1 : <<n, l>> \in Before(n + 1)
         /\ n >= Steps => Before(n) = Segment
         /\ \A s \in Before(n + 1) : s \in Before(n) \/ \E l \in 0 .. Lanes - 1 : s = <<n, l>>
BY ConstantsOK DEF Before, Segment

-----------------------------------------------------------------------------
(* Facts that several steps need *)

LEMMA WrapIncOK ==
  ASSUME NEW v \in GenValue
  PROVE  WrapInc(v) \in GenValue /\ WrapInc(v) # v
BY FillPoolAssumption DEF GenValue, WrapInc

LEMMA CardsOK ==
  /\ IsFiniteSet(Helpers) /\ IsFiniteSet(Lost)
  /\ IsFiniteSet(Arrived) /\ IsFiniteSet(Refused)
  /\ Cardinality(Helpers) \in Nat /\ Cardinality(Lost) \in Nat
  /\ Cardinality(Arrived) \in Nat /\ Cardinality(Refused) \in Nat
  /\ Cardinality(Lost) = 0 <=> Lost = {}
<1>1. Lost \subseteq Helpers /\ Arrived \subseteq Helpers /\ Refused \subseteq Helpers
  BY DEF Lost, Arrived, Refused
<1>2. IsFiniteSet(Helpers)
  BY FillPoolAssumption
<1>3. IsFiniteSet(Lost) /\ IsFiniteSet(Arrived) /\ IsFiniteSet(Refused)
  BY <1>1, <1>2, FS_Subset
<1> QED  BY <1>2, <1>3, FS_CardinalityType, FS_EmptySet

\* In fill and drain a worker is in the leader's step.
LEMMA SameStep ==
  ASSUME Inv, NEW w \in Workers, pc[w] \in {"drain", "fill"}
  PROVE  step[w] = Now /\ Now \in 0 .. Steps - 1
<1>1. CASE w = Leader
  BY <1>1, ConstantsOK DEF Inv, TypeOK, LeaderOK, Running, Now
<1>2. CASE w \in Helpers
  BY <1>2, ConstantsOK DEF Inv, TypeOK, HelpersOK, HelperOK, Now
<1> QED  BY <1>1, <1>2, ConstantsOK

\* Nobody is inside drain_lanes once the barrier has been passed.
LEMMA NobodyFills ==
  ASSUME Inv, pc[Leader] \in Passed, NEW w \in Workers
  PROVE  pc[w] \notin {"fill", "drain"}
<1>1. CASE w = Leader
  BY <1>1 DEF Passed
<1>2. CASE w \in Helpers
  BY <1>2 DEF Inv, BarrierOK, Refused, Arrived
<1> QED  BY <1>1, <1>2, ConstantsOK

\* A claim stays accounted for as long as views grow and no holder goes astray.
LEMMA AccountedStays ==
  ASSUME NEW l, Accounted(l), Now' = Now,
         \A w \in Workers :
           step[w] = Now =>
             /\ step'[w] = step[w]
             /\ hb[w] \subseteq hb'[w]
             /\ lane[w] = l /\ pc[w] \in {"fill", "bail", "lost"} =>
                  \/ <<Now, l>> \in hb'[w]
                  \/ lane'[w] = l /\ pc'[w] \in {"fill", "bail", "lost"}
  PROVE  Accounted(l)'
BY DEF Accounted

LEMMA LanesStay ==
  ASSUME LanesOK, lane \in [Workers -> 0 .. Lanes - 1], Now' = Now, nextLane \in Nat, nextLane' \in Nat, Lanes \in Nat,
         nextLane' = nextLane \/ (nextLane >= Lanes /\ nextLane' = nextLane + 1),
         UNCHANGED lane,
         \A w \in Workers : pc'[w] = "fill" => pc[w] = "fill",
         pc'[Leader] \in Counting => pc[Leader] \in Counting,
         pc'[Leader] \in {"loadArrived", "loadLost", "decide", "trace", "reset"} =>
           \/ pc[Leader] \in {"loadArrived", "loadLost", "decide", "trace", "reset"}
           \/ nextLane >= Lanes,
         pc'[Leader] = "publish" => pc[Leader] = "publish" /\ UNCHANGED nextLane,
         \A w \in Workers :
           step[w] = Now =>
             /\ step'[w] = step[w]
             /\ hb[w] \subseteq hb'[w]
             /\ pc[w] \in {"fill", "bail", "lost"} =>
                  <<Now, lane[w]>> \in hb'[w] \/ pc'[w] \in {"fill", "bail", "lost"}
  PROVE  LanesOK'
<1>1. \A v \in Workers : pc'[v] = "fill" => lane'[v] < nextLane'
  <2> SUFFICES ASSUME NEW v \in Workers, pc'[v] = "fill" PROVE lane'[v] < nextLane'
    OBVIOUS
  <2>1. lane[v] < nextLane /\ lane'[v] = lane[v]
    BY DEF LanesOK
  <2> QED  BY <2>1
<1>2. \A u, v \in Workers :
        u # v /\ pc'[u] = "fill" /\ pc'[v] = "fill" => lane'[u] # lane'[v]
  BY DEF LanesOK
<1>3. ASSUME pc'[Leader] \in Counting, NEW l \in 0 .. Lanes - 1, l < nextLane'
      PROVE  Accounted(l)'
  <2>1. Accounted(l)
    BY <1>3 DEF LanesOK
  <2> QED  BY <2>1, AccountedStays
<1>4. /\ pc'[Leader] \in {"loadArrived", "loadLost", "decide", "trace", "reset"} =>
           nextLane' >= Lanes
      /\ pc'[Leader] = "publish" => nextLane' = 0
  BY DEF LanesOK
<1> QED  BY <1>1, <1>2, <1>3, <1>4 DEF LanesOK

-----------------------------------------------------------------------------
(* drain_lanes *)

LEMMA ClaimLaneInv ==
  ASSUME Inv, NEW w \in Workers, ClaimLane(w)
  PROVE  Inv'
<1> USE ConstantsOK
<1>1. TypeOK'
  BY DEF Inv, TypeOK, ClaimLane, LeaderPC, HelperPC, leads
<1>2. StopOK'
  BY DEF Inv, TypeOK, ClaimLane, StopOK, Running, leads
<1>3. MessagesOK'
  BY DEF Inv, TypeOK, ClaimLane, MessagesOK, Running, Now, leads
<1>4. ViewsOK'
  BY DEF Inv, TypeOK, ClaimLane, ViewsOK, leads
<1>5. LeaderOK'
  BY DEF Inv, TypeOK, ClaimLane, LeaderOK, Running, Passed, Now, leads
<1>6. HelpersOK'
  BY SMTT(60) DEF Inv, TypeOK, ClaimLane, HelpersOK, HelperOK, Now, leads
<1>7. Lost' = Lost /\ Arrived' = Arrived /\ Refused' = Refused
  BY DEF Inv, TypeOK, ClaimLane, Lost, Arrived, Refused, Now
<1>8. LostOK'
  BY <1>7 DEF Inv, TypeOK, ClaimLane, LostOK
<1>9. ArrivedOK'
  BY <1>7 DEF Inv, TypeOK, ClaimLane, ArrivedOK, Counting, Running, leads
<1>10. BarrierOK'
  BY <1>7 DEF Inv, TypeOK, ClaimLane, BarrierOK, Passed
<1>11. LanesOK'
  <2>1. \A v \in Workers : pc'[v] = "fill" => lane'[v] < nextLane'
    BY DEF Inv, TypeOK, ClaimLane, LanesOK
  <2>2. \A u, v \in Workers :
          u # v /\ pc'[u] = "fill" /\ pc'[v] = "fill" => lane'[u] # lane'[v]
    BY SMTT(60) DEF Inv, TypeOK, ClaimLane, LanesOK
  <2>3. ASSUME pc'[Leader] \in Counting, NEW l \in 0 .. Lanes - 1, l < nextLane'
        PROVE  Accounted(l)'
    <3>1. pc[Leader] \in Counting
      BY <2>3 DEF Inv, TypeOK, ClaimLane, Counting, Running
    <3>2. CASE l = nextLane
      BY <3>2, SameStep DEF Inv, TypeOK, ClaimLane, Accounted, Now
    <3>3. CASE l < nextLane
      <4>1. Accounted(l)
        BY <3>1, <3>3 DEF Inv, LanesOK
      <4> QED  BY <4>1 DEF Inv, TypeOK, ClaimLane, Accounted, Now
    <3> QED  BY <2>3, <3>2, <3>3 DEF Inv, TypeOK, ClaimLane
  <2>4. pc'[Leader] \in {"loadArrived", "loadLost", "decide", "trace", "reset"} =>
          nextLane' >= Lanes
    BY DEF Inv, TypeOK, ClaimLane, LanesOK
  <2>5. pc'[Leader] = "publish" => nextLane' = 0
    BY SameStep DEF Inv, TypeOK, ClaimLane, LanesOK, BarrierOK, Passed, Refused, Arrived
  <2> QED  BY <2>1, <2>2, <2>3, <2>4, <2>5 DEF LanesOK
<1>12. FilledOK'
  BY DEF Inv, TypeOK, ClaimLane, FilledOK, Now, leads
<1>13. TracedOK'
  BY DEF Inv, TypeOK, ClaimLane, TracedOK, Now, Running, leads
<1>14. EndOK'
  BY <1>7 DEF Inv, TypeOK, ClaimLane, EndOK, Now, leads
<1> QED
  BY <1>1, <1>2, <1>3, <1>4, <1>5, <1>6, <1>8, <1>9, <1>10, <1>11, <1>12,
     <1>13, <1>14 DEF Inv

LEMMA LanesExhaustedInv ==
  ASSUME Inv, NEW w \in Workers, LanesExhausted(w)
  PROVE  Inv'
<1> USE ConstantsOK
<1>1. TypeOK'
  BY DEF Inv, TypeOK, LanesExhausted, LeaderPC, HelperPC, workers, leads
<1>2. StopOK'
  BY DEF Inv, TypeOK, LanesExhausted, StopOK, Running, workers, leads
<1>3. MessagesOK'
  BY DEF Inv, TypeOK, LanesExhausted, MessagesOK, Running, Now, workers, leads
<1>4. ViewsOK'
  BY DEF Inv, TypeOK, LanesExhausted, ViewsOK, workers, leads
<1>5. LeaderOK'
  BY DEF Inv, TypeOK, LanesExhausted, LeaderOK, Running, Passed, Now, workers, leads
<1>6. HelpersOK'
  BY SMTT(60) DEF Inv, TypeOK, LanesExhausted, HelpersOK, HelperOK, Now, workers, leads
<1>7. Lost' = Lost /\ Arrived' = Arrived /\ Refused' = Refused
  BY DEF Inv, TypeOK, LanesExhausted, Lost, Arrived, Refused, Now, workers, leads
<1>8. LostOK'
  BY <1>7 DEF Inv, TypeOK, LanesExhausted, LostOK, workers, leads
<1>9. ArrivedOK'
  BY <1>7 DEF Inv, TypeOK, LanesExhausted, ArrivedOK, Counting, Running, workers, leads
<1>10. BarrierOK'
  BY <1>7 DEF Inv, TypeOK, LanesExhausted, BarrierOK, Passed, workers, leads
<1>11. LanesOK'
  <2>1. /\ pc[w] = "drain" /\ Now' = Now /\ UNCHANGED <<step, lane, hb>>
        /\ pc'[w] = IF w = Leader THEN "loadArrived" ELSE "arrive"
        /\ \A v \in Workers : v # w => pc'[v] = pc[v]
        /\ nextLane >= Lanes /\ nextLane' = nextLane + 1
        /\ nextLane \in Nat /\ nextLane' \in Nat
    BY DEF Inv, TypeOK, LanesExhausted, workers, Now
  <2>2. /\ pc'[Leader] \in Counting => pc[Leader] \in Counting
        /\ pc'[Leader] = "publish" => pc[Leader] = "publish" /\ UNCHANGED nextLane
    <3>1. CASE w = Leader
      BY <2>1, <3>1 DEF Counting, Running
    <3>2. CASE w # Leader
      BY <2>1, <3>2, NobodyFills DEF Passed
    <3> QED  BY <3>1, <3>2
  <2> QED  BY <2>1, <2>2, LanesStay DEF Inv, TypeOK
<1>12. FilledOK'
  BY DEF Inv, TypeOK, LanesExhausted, FilledOK, Now, workers, leads
<1>13. TracedOK'
  BY DEF Inv, TypeOK, LanesExhausted, TracedOK, Now, Running, workers, leads
<1>14. EndOK'
  BY <1>7 DEF Inv, TypeOK, LanesExhausted, EndOK, Now, workers, leads
<1> QED
  BY <1>1, <1>2, <1>3, <1>4, <1>5, <1>6, <1>8, <1>9, <1>10, <1>11, <1>12,
     <1>13, <1>14 DEF Inv

LEMMA FillSegmentInv ==
  ASSUME Inv, NEW w \in Workers, FillSegment(w)
  PROVE  Inv'
<1> USE ConstantsOK
<1>1. TypeOK'
  <2>1. Held(w) \in Segment
    BY SameStep DEF Inv, TypeOK, FillSegment, Held, Segment
  <2> QED  BY <2>1 DEF Inv, TypeOK, FillSegment, LeaderPC, HelperPC, atomics, leads
<1>2. StopOK'
  BY DEF Inv, TypeOK, FillSegment, StopOK, Running, atomics, leads
<1>3. MessagesOK'
  BY DEF Inv, TypeOK, FillSegment, MessagesOK, Running, Now, atomics, leads
<1>4. ViewsOK'
  BY DEF Inv, TypeOK, FillSegment, ViewsOK, atomics, leads
<1>5. LeaderOK'
  BY DEF Inv, TypeOK, FillSegment, LeaderOK, Running, Passed, Now, atomics, leads
<1>6. HelpersOK'
  BY SMTT(60) DEF Inv, TypeOK, FillSegment, HelpersOK, HelperOK, Now, atomics, leads
<1>7. Lost' = Lost /\ Arrived' = Arrived /\ Refused' = Refused
  BY DEF Inv, TypeOK, FillSegment, Lost, Arrived, Refused, Now, atomics, leads
<1>8. LostOK'
  BY <1>7 DEF Inv, TypeOK, FillSegment, LostOK, atomics, leads
<1>9. ArrivedOK'
  <2>1. \A h \in Arrived : hb'[h] = hb[h]
    BY DEF Inv, TypeOK, FillSegment, Arrived
  <2>2. pc'[Leader] \in Counting => pc[Leader] \in Counting
    BY DEF Inv, TypeOK, FillSegment, Counting, Running
  <2>3. hb[Leader] \subseteq hb'[Leader]
    BY DEF Inv, TypeOK, FillSegment
  <2>4. UNCHANGED <<arrived, arrivedHb, got>>
    BY DEF FillSegment, atomics, leads
  <2>5. \A p \in {"publish", "loadLost", "decide", "trace", "reset"} :
          pc'[Leader] = p => pc[Leader] = p
    BY DEF Inv, TypeOK, FillSegment
  <2> QED  BY <1>7, <2>1, <2>2, <2>3, <2>4, <2>5 DEF Inv, ArrivedOK
<1>10. BarrierOK'
  BY <1>7 DEF Inv, TypeOK, FillSegment, BarrierOK, Passed, atomics, leads
<1>11. LanesOK'
  <2>1. \A v \in Workers : hb[v] \subseteq hb'[v] /\ step'[v] = step[v]
    BY DEF Inv, TypeOK, FillSegment
  <2>2. \A v \in Workers :
          pc[v] \in {"fill", "bail", "lost"} =>
            <<step[v], lane[v]>> \in hb'[v] \/ pc'[v] \in {"fill", "bail", "lost"}
    BY DEF Inv, TypeOK, FillSegment, Held
  <2>3. \A v \in Workers : pc'[v] = "fill" => pc[v] = "fill"
    BY DEF Inv, TypeOK, FillSegment
  <2>4. Now' = Now /\ UNCHANGED <<lane, nextLane>>
    BY <2>1 DEF FillSegment, atomics, Now
  <2>5. pc[Leader] \in Running => pc'[Leader] = pc[Leader] \/ pc'[Leader] = "drain"
    BY DEF Inv, TypeOK, FillSegment
  <2>6. pc'[Leader] = pc[Leader] \/ (pc[Leader] = "fill" /\ pc'[Leader] = "drain")
    BY DEF Inv, TypeOK, FillSegment
  <2> QED  BY <2>1, <2>2, <2>3, <2>4, <2>6, LanesStay
           DEF Inv, TypeOK, Now, Counting, Running
<1>12. FilledOK'
  <2>1. step[w] = Now /\ Now < Steps /\ Now \in Nat /\ Now' = Now
    BY SameStep DEF Inv, TypeOK, FillSegment, Now
  <2>2. lane[w] < nextLane /\ lane[w] \in 0 .. Lanes - 1
    BY DEF Inv, TypeOK, FillSegment, LanesOK
  <2>3. filled' = filled \cup {<<Now, lane[w]>>}
    BY <2>1 DEF FillSegment, Held
  <2>4. filled' \subseteq Before(Now + 1)
    BY <2>1, <2>2, <2>3, BeforeStep DEF Inv, FilledOK
  <2>5. ASSUME NEW l \in 0 .. Lanes - 1, <<Now, l>> \in filled', pc'[Leader] # "publish"
        PROVE  l < nextLane /\ \A v \in Workers : pc'[v] = "fill" => lane[v] # l
    <3>1. pc[Leader] # "publish"
      BY <2>5 DEF Inv, TypeOK, FillSegment
    <3>2. \A v \in Workers : pc'[v] = "fill" => pc[v] = "fill" /\ v # w
      BY DEF Inv, TypeOK, FillSegment
    <3>3. CASE l = lane[w]
      BY <2>2, <3>2, <3>3 DEF Inv, LanesOK, FillSegment
    <3>4. CASE <<Now, l>> \in filled
      BY <3>1, <3>2, <3>4 DEF Inv, FilledOK
    <3> QED  BY <2>3, <2>5, <3>3, <3>4
  <2> QED  BY <2>1, <2>4, <2>5 DEF FilledOK, FillSegment, atomics
<1>13. TracedOK'
  BY DEF Inv, TypeOK, FillSegment, TracedOK, Now, Running, atomics, leads
<1>14. EndOK'
  BY <1>7 DEF Inv, TypeOK, FillSegment, EndOK, Now, atomics, leads
<1> QED
  BY <1>1, <1>2, <1>3, <1>4, <1>5, <1>6, <1>8, <1>9, <1>10, <1>11, <1>12,
     <1>13, <1>14 DEF Inv

LEMMA FillPanicsInv ==
  ASSUME Inv, NEW w \in Workers, FillPanics(w)
  PROVE  Inv'
<1> USE ConstantsOK
<1>1. TypeOK'
  BY DEF Inv, TypeOK, FillPanics, LeaderPC, HelperPC, atomics, workers
<1>2. StopOK'
  BY DEF Inv, TypeOK, FillPanics, StopOK, Running, atomics, workers
<1>3. MessagesOK'
  BY DEF Inv, TypeOK, FillPanics, MessagesOK, Running, Now, atomics, workers
<1>4. ViewsOK'
  BY DEF Inv, TypeOK, FillPanics, ViewsOK, atomics, workers
<1>5. LeaderOK'
  BY DEF Inv, TypeOK, FillPanics, LeaderOK, Running, Passed, Now, atomics, workers
<1>6. HelpersOK'
  BY SMTT(60) DEF Inv, TypeOK, FillPanics, HelpersOK, HelperOK, Now, atomics, workers
<1>7. Lost' = Lost /\ Arrived' = Arrived /\ Refused' = Refused
  BY DEF Inv, TypeOK, FillPanics, Lost, Arrived, Refused, Now, atomics, workers
<1>8. LostOK'
  BY <1>7 DEF Inv, TypeOK, FillPanics, LostOK, atomics, workers
<1>9. ArrivedOK'
  BY <1>7 DEF Inv, TypeOK, FillPanics, ArrivedOK, Counting, Running, atomics, workers
<1>10. BarrierOK'
  BY <1>7 DEF Inv, TypeOK, FillPanics, BarrierOK, Passed, atomics, workers
<1>11. LanesOK'
  <2>1. /\ pc[w] = "fill" /\ Now' = Now /\ UNCHANGED <<step, lane, hb, nextLane>>
        /\ pc'[w] = IF w = Leader THEN "dropStop" ELSE "bail"
        /\ \A v \in Workers : v # w => pc'[v] = pc[v]
    BY DEF Inv, TypeOK, FillPanics, atomics, workers, Now
  <2>2. CASE w = Leader
    BY <2>1, <2>2 DEF Inv, LanesOK, Counting, Running
  <2>3. CASE w # Leader
    <3>1. pc'[Leader] = pc[Leader]
      BY <2>1, <2>3
    <3> QED  BY <2>1, <2>3, <3>1, LanesStay DEF Inv, TypeOK
  <2> QED  BY <2>2, <2>3
<1>12. FilledOK'
  BY DEF Inv, TypeOK, FillPanics, FilledOK, Now, atomics, workers
<1>13. TracedOK'
  BY DEF Inv, TypeOK, FillPanics, TracedOK, Now, Running, atomics, workers
<1>14. EndOK'
  BY <1>7 DEF Inv, TypeOK, FillPanics, EndOK, Now, atomics, workers
<1> QED
  BY <1>1, <1>2, <1>3, <1>4, <1>5, <1>6, <1>8, <1>9, <1>10, <1>11, <1>12,
     <1>13, <1>14 DEF Inv

LEMMA ArriveInv ==
  ASSUME Inv, NEW h \in Helpers, Arrive(h)
  PROVE  Inv'
<1> USE ConstantsOK
<1>1. TypeOK'
  BY WrapIncOK DEF Inv, TypeOK, Arrive, LeaderPC, HelperPC, leads
<1>2. StopOK'
  BY DEF Inv, TypeOK, Arrive, StopOK, Running, leads
<1>3. MessagesOK'
  BY DEF Inv, TypeOK, Arrive, MessagesOK, Running, Now, leads
<1>4. ViewsOK'
  BY DEF Inv, TypeOK, Arrive, ViewsOK, leads
<1>5. LeaderOK'
  BY DEF Inv, TypeOK, Arrive, LeaderOK, Running, Passed, Now, leads
<1>6. HelpersOK'
  BY SMTT(60) DEF Inv, TypeOK, Arrive, HelpersOK, HelperOK, Now, leads
<1>7. Lost' = Lost /\ Arrived' = Arrived \cup {h} /\ Refused' = Refused
  <2>1. step[h] = Now
    BY DEF Inv, HelpersOK, HelperOK, Arrive
  <2>2. pc' = [pc EXCEPT ![h] = "park"] /\ UNCHANGED step /\ pc[h] = "arrive"
    BY DEF Arrive
  <2>3. \A g \in Helpers : pc'[g] = IF g = h THEN "park" ELSE pc[g]
    BY <2>2 DEF Inv, TypeOK
  <2> QED  BY <2>1, <2>2, <2>3 DEF Lost, Arrived, Refused, Now
<1>8. LostOK'
  BY <1>7 DEF Inv, TypeOK, Arrive, LostOK, leads
<1>9. ArrivedOK'
  <2>1. h \notin Arrived
    BY DEF Arrive, Arrived
  <2>2. Cardinality(Arrived') = Cardinality(Arrived) + 1
    BY <1>7, <2>1, CardsOK, FS_AddElement
  <2>3. pc'[Leader] = pc[Leader] /\ UNCHANGED <<got, hb>>
    BY DEF Inv, TypeOK, Arrive, leads
  <2>4. arrived' = arrived + 1 /\ arrivedHb' = arrivedHb \cup hb[h]
    BY DEF Arrive
  <2>5. pc[Leader] \notin {"decide", "trace", "reset", "publish"}
    BY DEF Inv, BarrierOK, Arrive, Passed, Refused, Lost, Arrived
  <2>6. pc[Leader] \in Counting =>
          arrived' = Cardinality(Arrived') /\ \A g \in Arrived' : hb[g] \subseteq arrivedHb'
    BY <1>7, <2>2, <2>4 DEF Inv, ArrivedOK
  <2>7. pc[Leader] = "loadLost" => got < arrived'
    BY <2>4 DEF Inv, TypeOK, ArrivedOK
  <2>8. got \in Nat /\ arrived' \in Nat
    BY <2>4 DEF Inv, TypeOK
  <2>9. pc[Leader] = "loadLost" => got <= arrived' /\ got # arrived'
    BY <2>7, <2>8
  <2> QED  BY <2>3, <2>5, <2>6, <2>9 DEF ArrivedOK
<1>10. BarrierOK'
  BY <1>7 DEF Inv, TypeOK, Arrive, BarrierOK, Passed, leads
<1>11. LanesOK'
  BY LanesStay DEF Inv, TypeOK, Arrive, Counting, Running, Now, leads
<1>12. FilledOK'
  BY DEF Inv, TypeOK, Arrive, FilledOK, Now, leads
<1>13. TracedOK'
  BY DEF Inv, TypeOK, Arrive, TracedOK, Now, Running, leads
<1>14. EndOK'
  BY <1>7 DEF Inv, TypeOK, Arrive, EndOK, Now, leads
<1> QED
  BY <1>1, <1>2, <1>3, <1>4, <1>5, <1>6, <1>8, <1>9, <1>10, <1>11, <1>12,
     <1>13, <1>14 DEF Inv

\* A helper that waits in a step is woken by the publication of that step, or by a
\* message that carries stop; older values of generation are not mistaken for it.
LEMMA WakeMessage ==
  ASSUME Inv, NEW h \in Helpers, NEW i \in DOMAIN generation, WakeByGeneration(h, i)
  PROVE  \/ generation[i].stop
         \/ /\ i = step[h] + 2 /\ step[h] + 1 = Now
            /\ Before(step[h] + 1) \subseteq generation[i].hb
<1> USE ConstantsOK
<1>1. /\ step[h] \in Nat /\ Now \in Nat /\ i \in Nat
      /\ step[h] = Now \/ step[h] + 1 = Now
      /\ i >= step[h] + 1
      /\ generation[i].val = WrapInc(generation[step[h] + 1].val)
  BY SMTT(60) DEF Inv, TypeOK, WakeByGeneration, HelpersOK, HelperOK, Now
<1>2. step[h] + 1 \in DOMAIN generation
  <2>1. generation \in Seq(Message) /\ Len(generation) >= Now + 1
    BY DEF Inv, TypeOK, MessagesOK
  <2>2. DOMAIN generation = 1 .. Len(generation) /\ Len(generation) \in Nat
    BY <2>1
  <2> QED  BY <1>1, <2>1, <2>2
<1>3. generation[step[h] + 1].val \in GenValue
  <2>1. generation[step[h] + 1] \in Message
    BY <1>2 DEF Inv, TypeOK
  <2> QED  BY <2>1 DEF Message
<1>4. i # step[h] + 1
  BY <1>1, <1>3, WrapIncOK
<1>5. CASE i <= Now + 1
  <2>1. i = step[h] + 2 /\ step[h] + 1 = Now
    BY <1>1, <1>4, <1>5
  <2>2. Before(i - 1) \subseteq generation[i].hb
    BY <1>5 DEF Inv, MessagesOK
  <2>3. i - 1 = step[h] + 1
    BY <1>1, <2>1
  <2> QED  BY <2>1, <2>2, <2>3
<1>6. CASE ~(i <= Now + 1)
  BY <1>6 DEF Inv, MessagesOK
<1> QED  BY <1>5, <1>6

\* While the leader runs, a helper that has arrived stays parked.
LEMMA WakesLate ==
  ASSUME Inv, NEW h \in Helpers, NEW i \in DOMAIN generation, WakeByGeneration(h, i),
         pc[Leader] \in Running
  PROVE  step[h] # Now /\ Arrived' = Arrived
<1>1. ~generation[i].stop
  BY DEF Inv, StopOK
<1>2. step[h] + 1 = Now /\ step[h] \in Nat
  BY <1>1, WakeMessage, ConstantsOK, SMTT(60) DEF Inv, TypeOK
<1>3. pc' = [pc EXCEPT ![h] = "check"] /\ UNCHANGED step
  BY DEF WakeByGeneration
<1>4. \A g \in Helpers : pc'[g] = IF g = h THEN "check" ELSE pc[g]
  BY <1>3, ConstantsOK DEF Inv, TypeOK
<1> QED  BY <1>2, <1>3, <1>4 DEF Arrived, Now

LEMMA WakeByGenerationInv ==
  ASSUME Inv, NEW h \in Helpers, NEW i \in DOMAIN generation, WakeByGeneration(h, i)
  PROVE  Inv'
<1> USE ConstantsOK
<1>1. TypeOK'
  <2>1. generation[i] \in Message
    BY DEF Inv, TypeOK
  <2> QED  BY <2>1, SMTT(60) DEF Inv, TypeOK, WakeByGeneration, LeaderPC, HelperPC,
                                Message, atomics, leads
<1>2. StopOK'
  BY DEF Inv, TypeOK, WakeByGeneration, StopOK, Running, atomics, leads
<1>3. MessagesOK'
  BY DEF Inv, TypeOK, WakeByGeneration, MessagesOK, Running, Now, atomics, leads
<1>4. ViewsOK'
  BY DEF Inv, TypeOK, WakeByGeneration, ViewsOK, atomics, leads
<1>5. LeaderOK'
  BY DEF Inv, TypeOK, WakeByGeneration, LeaderOK, Running, Passed, Now, atomics, leads
<1>6. HelpersOK'
  <2>1. ASSUME NEW g \in Helpers, g # h PROVE HelperOK(g)'
    BY <2>1 DEF Inv, TypeOK, WakeByGeneration, HelpersOK, HelperOK, Now, atomics
  <2>2. HelperOK(h)'
    <3>1. pc'[h] = "check" /\ lastRead'[h] = i /\ UNCHANGED <<step, count, generation>>
      BY DEF Inv, TypeOK, WakeByGeneration, atomics
    <3>2. /\ hb'[h] = hb[h] \cup generation[i].hb
          /\ knowsStop'[h] = (knowsStop[h] \/ generation[i].stop)
      BY DEF Inv, TypeOK, WakeByGeneration
    <3>3. CASE generation[i].stop
      BY <3>1, <3>2, <3>3 DEF HelperOK
    <3>4. CASE /\ i = step[h] + 2 /\ step[h] + 1 = Now
               /\ Before(step[h] + 1) \subseteq generation[i].hb
      BY <3>1, <3>2, <3>4 DEF HelperOK, WakeByGeneration, Now
    <3> QED  BY <3>3, <3>4, WakeMessage
  <2> QED  BY <2>1, <2>2 DEF HelpersOK
<1>7. Lost' = Lost /\ Refused' = Refused
  BY DEF Inv, TypeOK, WakeByGeneration, Lost, Arrived, Refused, Now, atomics, leads
<1>8. LostOK'
  BY <1>7 DEF Inv, TypeOK, WakeByGeneration, LostOK, atomics, leads
<1>9. ArrivedOK'
  <2>1. pc'[Leader] = pc[Leader] /\ hb'[Leader] = hb[Leader]
    BY DEF Inv, TypeOK, WakeByGeneration
  <2>2. \A g \in Helpers : g # h => hb'[g] = hb[g]
    BY DEF Inv, TypeOK, WakeByGeneration
  <2>3. pc[Leader] \in Running => Arrived' = Arrived /\ h \notin Arrived
    BY WakesLate DEF Arrived
  <2>4. UNCHANGED <<arrived, arrivedHb, got>>
    BY DEF WakeByGeneration, atomics, leads
  <2>5. \A g \in Arrived : g \in Helpers
    BY DEF Arrived
  <2> QED  BY <2>1, <2>2, <2>3, <2>4, <2>5 DEF Inv, ArrivedOK, Counting, Running
<1>10. BarrierOK'
  <2>1. pc'[Leader] = pc[Leader]
    BY DEF Inv, TypeOK, WakeByGeneration
  <2>2. pc[Leader] \in Running => Arrived' = Arrived
    BY WakesLate
  <2> QED  BY <1>7, <2>1, <2>2 DEF Inv, BarrierOK, Passed, Running
<1>11. LanesOK'
  <2>1. \A v \in Workers : hb[v] \subseteq hb'[v]
    BY DEF Inv, TypeOK, WakeByGeneration
  <2>2. \A v \in Workers : pc'[v] = pc[v] \/ (pc[v] = "park" /\ pc'[v] = "check")
    BY DEF Inv, TypeOK, WakeByGeneration
  <2>3. pc'[Leader] = pc[Leader] /\ UNCHANGED <<step, lane, nextLane>>
    BY DEF Inv, TypeOK, WakeByGeneration, atomics
  <2> QED  BY <2>1, <2>2, <2>3, LanesStay DEF Inv, TypeOK, Now
<1>12. FilledOK'
  BY DEF Inv, TypeOK, WakeByGeneration, FilledOK, Now, atomics, leads
<1>13. TracedOK'
  BY DEF Inv, TypeOK, WakeByGeneration, TracedOK, Now, Running, atomics, leads
<1>14. EndOK'
  BY <1>7 DEF Inv, TypeOK, WakeByGeneration, EndOK, Now, atomics, leads
<1> QED
  BY <1>1, <1>2, <1>3, <1>4, <1>5, <1>6, <1>8, <1>9, <1>10, <1>11, <1>12,
     <1>13, <1>14 DEF Inv

LEMMA WakeByStopInv ==
  ASSUME Inv, NEW h \in Helpers, WakeByStop(h)
  PROVE  Inv'
<1> USE ConstantsOK
<1>1. TypeOK'
  BY DEF Inv, TypeOK, WakeByStop, LeaderPC, HelperPC, atomics, leads
<1>2. StopOK'
  BY DEF Inv, TypeOK, WakeByStop, StopOK, Running, atomics, leads
<1>3. MessagesOK'
  BY DEF Inv, TypeOK, WakeByStop, MessagesOK, Running, Now, atomics, leads
<1>4. ViewsOK'
  BY DEF Inv, TypeOK, WakeByStop, ViewsOK, atomics, leads
<1>5. LeaderOK'
  BY DEF Inv, TypeOK, WakeByStop, LeaderOK, Running, Passed, Now, atomics, leads
<1>6. HelpersOK'
  BY SMTT(60) DEF Inv, TypeOK, WakeByStop, HelpersOK, HelperOK, Now, atomics, leads
<1>7. Lost' = Lost /\ Refused' = Refused
  BY DEF Inv, TypeOK, WakeByStop, Lost, Arrived, Refused, Now, atomics, leads
<1>8. LostOK'
  BY <1>7 DEF Inv, TypeOK, WakeByStop, LostOK, atomics, leads
<1>9. ArrivedOK'
  <2>1. pc'[Leader] = pc[Leader]
    BY DEF Inv, TypeOK, WakeByStop
  <2>2. pc[Leader] \notin Running
    BY DEF Inv, StopOK, WakeByStop
  <2> QED  BY <2>1, <2>2 DEF ArrivedOK, Counting, Running
<1>10. BarrierOK'
  <2>1. pc'[Leader] = pc[Leader]
    BY DEF Inv, TypeOK, WakeByStop
  <2>2. pc[Leader] \notin Running
    BY DEF Inv, StopOK, WakeByStop
  <2> QED  BY <2>1, <2>2 DEF BarrierOK, Passed, Running
<1>11. LanesOK'
  BY LanesStay DEF Inv, TypeOK, WakeByStop, Counting, Running, Now, atomics, leads
<1>12. FilledOK'
  BY DEF Inv, TypeOK, WakeByStop, FilledOK, Now, atomics, leads
<1>13. TracedOK'
  BY DEF Inv, TypeOK, WakeByStop, TracedOK, Now, Running, atomics, leads
<1>14. EndOK'
  BY <1>7 DEF Inv, TypeOK, WakeByStop, EndOK, Now, atomics, leads
<1> QED
  BY <1>1, <1>2, <1>3, <1>4, <1>5, <1>6, <1>8, <1>9, <1>10, <1>11, <1>12,
     <1>13, <1>14 DEF Inv

LEMMA CheckStoppedInv ==
  ASSUME Inv, NEW h \in Helpers, CheckStopped(h)
  PROVE  Inv'
<1> USE ConstantsOK
<1>1. TypeOK'
  BY DEF Inv, TypeOK, CheckStopped, LeaderPC, HelperPC, atomics, workers, leads
<1>2. StopOK'
  BY DEF Inv, TypeOK, CheckStopped, StopOK, Running, atomics, workers, leads
<1>3. MessagesOK'
  BY DEF Inv, TypeOK, CheckStopped, MessagesOK, Running, Now, atomics, workers, leads
<1>4. ViewsOK'
  BY DEF Inv, TypeOK, CheckStopped, ViewsOK, atomics, workers, leads
<1>5. LeaderOK'
  BY DEF Inv, TypeOK, CheckStopped, LeaderOK, Running, Passed, Now, atomics, workers, leads
<1>6. HelpersOK'
  BY SMTT(60) DEF Inv, TypeOK, CheckStopped, HelpersOK, HelperOK, Now, atomics, workers, leads
<1>7. Lost' = Lost /\ Arrived' = Arrived /\ Refused' = Refused
  BY DEF Inv, TypeOK, CheckStopped, Lost, Arrived, Refused, Now, atomics, workers, leads
<1>8. LostOK'
  BY <1>7 DEF Inv, TypeOK, CheckStopped, LostOK, atomics, workers, leads
<1>9. ArrivedOK'
  BY <1>7 DEF Inv, TypeOK, CheckStopped, ArrivedOK, Counting, Running, atomics, workers, leads
<1>10. BarrierOK'
  BY <1>7 DEF Inv, TypeOK, CheckStopped, BarrierOK, Passed, atomics, workers, leads
<1>11. LanesOK'
  BY LanesStay DEF Inv, TypeOK, CheckStopped, Counting, Running, Now, atomics, workers, leads
<1>12. FilledOK'
  BY DEF Inv, TypeOK, CheckStopped, FilledOK, Now, atomics, workers, leads
<1>13. TracedOK'
  BY DEF Inv, TypeOK, CheckStopped, TracedOK, Now, Running, atomics, workers, leads
<1>14. EndOK'
  BY <1>7 DEF Inv, TypeOK, CheckStopped, EndOK, Now, atomics, workers, leads
<1> QED
  BY <1>1, <1>2, <1>3, <1>4, <1>5, <1>6, <1>8, <1>9, <1>10, <1>11, <1>12,
     <1>13, <1>14 DEF Inv

LEMMA CheckContinuesInv ==
  ASSUME Inv, NEW h \in Helpers, CheckContinues(h)
  PROVE  Inv'
<1> USE ConstantsOK
<1>1. TypeOK'
  <2>1. step[h] + 1 \in 0 .. Steps
    BY SMTT(60) DEF Inv, TypeOK, CheckContinues, HelpersOK, HelperOK, Now
  <2> QED  BY <2>1 DEF Inv, TypeOK, CheckContinues, LeaderPC, HelperPC, atomics, leads
<1>2. StopOK'
  BY DEF Inv, TypeOK, CheckContinues, StopOK, Running, atomics, leads
<1>3. MessagesOK'
  BY DEF Inv, TypeOK, CheckContinues, MessagesOK, Running, Now, atomics, leads
<1>4. ViewsOK'
  BY DEF Inv, TypeOK, CheckContinues, ViewsOK, atomics, leads
<1>5. LeaderOK'
  BY DEF Inv, TypeOK, CheckContinues, LeaderOK, Running, Passed, Now, atomics, leads
<1>6. HelpersOK'
  <2>1. UNCHANGED <<lastRead, count, hb, knowsStop, generation>> /\ Now' = Now
        /\ pc'[Leader] = pc[Leader]
    BY DEF Inv, TypeOK, CheckContinues, atomics, Now
  <2>2. ASSUME NEW g \in Helpers, g # h PROVE HelperOK(g)'
    <3>1. pc'[g] = pc[g] /\ step'[g] = step[g] /\ HelperOK(g)
      BY <2>2 DEF Inv, TypeOK, HelpersOK, CheckContinues
    <3> QED  BY <2>1, <3>1 DEF HelperOK
  <2>3. HelperOK(h)'
    <3>1. /\ step[h] + 1 = Now /\ lastRead[h] = step[h] + 2
          /\ count[h] = generation[step[h] + 2].val /\ Before(step[h] + 1) \subseteq hb[h]
      BY DEF Inv, HelpersOK, HelperOK, CheckContinues
    <3>2. /\ step'[h] = step[h] + 1 /\ step[h] \in Nat
          /\ pc'[h] = IF step[h] + 1 < Steps THEN "drain" ELSE "done"
      BY DEF Inv, TypeOK, CheckContinues
    <3>3. step'[h] + 1 = step[h] + 2
      BY <3>2
    <3>4. CASE step[h] + 1 < Steps
      BY <2>1, <3>1, <3>2, <3>3, <3>4 DEF HelperOK
    <3>5. CASE ~(step[h] + 1 < Steps)
      BY <3>2, <3>5 DEF HelperOK
    <3> QED  BY <3>4, <3>5
  <2> QED  BY <2>2, <2>3 DEF HelpersOK
<1>7. Lost' = Lost /\ Arrived' = Arrived /\ Refused' = Refused
  BY DEF Inv, TypeOK, CheckContinues, Lost, Arrived, Refused, Now, atomics, leads
<1>8. LostOK'
  BY <1>7 DEF Inv, TypeOK, CheckContinues, LostOK, atomics, leads
<1>9. ArrivedOK'
  BY <1>7 DEF Inv, TypeOK, CheckContinues, ArrivedOK, Counting, Running, atomics, leads
<1>10. BarrierOK'
  BY <1>7 DEF Inv, TypeOK, CheckContinues, BarrierOK, Passed, atomics, leads
<1>11. LanesOK'
  <2>1. step[h] # Now
    BY SMTT(60) DEF Inv, TypeOK, CheckContinues, HelpersOK, HelperOK, Now
  <2>2. \A v \in Workers : pc'[v] = pc[v] \/ (v = h /\ pc'[v] \in {"drain", "done"})
    BY DEF Inv, TypeOK, CheckContinues
  <2>3. \A v \in Workers : step[v] = Now => step'[v] = step[v] /\ pc'[v] = pc[v]
    BY <2>1 DEF Inv, TypeOK, CheckContinues
  <2>4. pc'[Leader] = pc[Leader] /\ Now' = Now /\ UNCHANGED <<hb, lane, nextLane>>
    BY DEF Inv, TypeOK, CheckContinues, Now, atomics
  <2> QED  BY <2>2, <2>3, <2>4, LanesStay DEF Inv, TypeOK
<1>12. FilledOK'
  BY DEF Inv, TypeOK, CheckContinues, FilledOK, Now, atomics, leads
<1>13. TracedOK'
  BY DEF Inv, TypeOK, CheckContinues, TracedOK, Now, Running, atomics, leads
<1>14. EndOK'
  BY <1>7 DEF Inv, TypeOK, CheckContinues, EndOK, Now, atomics, leads
<1> QED
  BY <1>1, <1>2, <1>3, <1>4, <1>5, <1>6, <1>8, <1>9, <1>10, <1>11, <1>12,
     <1>13, <1>14 DEF Inv

LEMMA BailDropInv ==
  ASSUME Inv, NEW h \in Helpers, BailDrop(h)
  PROVE  Inv'
<1> USE ConstantsOK
<1>1. TypeOK'
  BY DEF Inv, TypeOK, BailDrop, LeaderPC, HelperPC, workers, leads
<1>2. StopOK'
  BY DEF Inv, TypeOK, BailDrop, StopOK, Running, workers, leads
<1>3. MessagesOK'
  BY DEF Inv, TypeOK, BailDrop, MessagesOK, Running, Now, workers, leads
<1>4. ViewsOK'
  BY DEF Inv, TypeOK, BailDrop, ViewsOK, workers, leads
<1>5. LeaderOK'
  BY DEF Inv, TypeOK, BailDrop, LeaderOK, Running, Passed, Now, workers, leads
<1>6. HelpersOK'
  BY SMTT(60) DEF Inv, TypeOK, BailDrop, HelpersOK, HelperOK, Now, workers, leads
<1>7. Lost' = Lost \cup {h} /\ Arrived' = Arrived /\ Refused' = Refused
  BY DEF Inv, TypeOK, BailDrop, Lost, Arrived, Refused, Now, workers, leads
<1>8. LostOK'
  <2>1. h \notin Lost
    BY DEF BailDrop, Lost
  <2>2. Cardinality(Lost') = Cardinality(Lost) + 1
    BY <1>7, <2>1, CardsOK, FS_AddElement
  <2>3. pc'[Leader] = pc[Leader] /\ lost' = lost + 1
    BY DEF Inv, TypeOK, BailDrop
  <2> QED  BY <1>7, <2>2, <2>3, CardsOK DEF Inv, LostOK
<1>9. ArrivedOK'
  BY <1>7 DEF Inv, TypeOK, BailDrop, ArrivedOK, Counting, Running, workers, leads
<1>10. BarrierOK'
  BY <1>7 DEF Inv, TypeOK, BailDrop, BarrierOK, Passed, workers, leads
<1>11. LanesOK'
  BY LanesStay DEF Inv, TypeOK, BailDrop, Counting, Running, Now, workers, leads
<1>12. FilledOK'
  BY DEF Inv, TypeOK, BailDrop, FilledOK, Now, workers, leads
<1>13. TracedOK'
  BY DEF Inv, TypeOK, BailDrop, TracedOK, Now, Running, workers, leads
<1>14. EndOK'
  BY <1>7 DEF Inv, TypeOK, BailDrop, EndOK, Now, workers, leads
<1> QED
  BY <1>1, <1>2, <1>3, <1>4, <1>5, <1>6, <1>8, <1>9, <1>10, <1>11, <1>12,
     <1>13, <1>14 DEF Inv

LEMMA SpawnHelperInv ==
  ASSUME Inv, NEW h \in Helpers, SpawnHelper(h)
  PROVE  Inv'
<1> USE ConstantsOK
<1>1. TypeOK'
  BY DEF Inv, TypeOK, SpawnHelper, LeaderPC, HelperPC, atomics, workers, leads
<1>2. StopOK'
  BY DEF Inv, TypeOK, SpawnHelper, StopOK, Running, atomics, workers, leads
<1>3. MessagesOK'
  BY DEF Inv, TypeOK, SpawnHelper, MessagesOK, Running, Now, atomics, workers, leads
<1>4. ViewsOK'
  BY DEF Inv, TypeOK, SpawnHelper, ViewsOK, atomics, workers, leads
<1>5. LeaderOK'
  BY DEF Inv, TypeOK, SpawnHelper, LeaderOK, Running, Passed, Now, atomics, workers, leads
<1>6. HelpersOK'
  BY SMTT(60) DEF Inv, TypeOK, SpawnHelper, HelpersOK, HelperOK, Now, atomics, workers, leads
<1>7. Lost' = Lost /\ Arrived' = Arrived /\ Refused' = Refused
  BY DEF Inv, TypeOK, SpawnHelper, Lost, Arrived, Refused, Now, atomics, workers, leads
<1>8. LostOK'
  BY <1>7 DEF Inv, TypeOK, SpawnHelper, LostOK, atomics, workers, leads
<1>9. ArrivedOK'
  BY <1>7 DEF Inv, TypeOK, SpawnHelper, ArrivedOK, Counting, Running, atomics, workers, leads
<1>10. BarrierOK'
  BY <1>7 DEF Inv, TypeOK, SpawnHelper, BarrierOK, Passed, atomics, workers, leads
<1>11. LanesOK'
  BY LanesStay DEF Inv, TypeOK, SpawnHelper, Counting, Running, Now, atomics, workers, leads
<1>12. FilledOK'
  BY DEF Inv, TypeOK, SpawnHelper, FilledOK, Now, atomics, workers, leads
<1>13. TracedOK'
  BY DEF Inv, TypeOK, SpawnHelper, TracedOK, Now, Running, atomics, workers, leads
<1>14. EndOK'
  BY <1>7 DEF Inv, TypeOK, SpawnHelper, EndOK, Now, atomics, workers, leads
<1> QED
  BY <1>1, <1>2, <1>3, <1>4, <1>5, <1>6, <1>8, <1>9, <1>10, <1>11, <1>12,
     <1>13, <1>14 DEF Inv

LEMMA SpawnRefusedInv ==
  ASSUME Inv, NEW h \in Helpers, SpawnRefused(h)
  PROVE  Inv'
<1> USE ConstantsOK
<1>1. TypeOK'
  BY DEF Inv, TypeOK, SpawnRefused, LeaderPC, HelperPC, atomics, workers, leads
<1>2. StopOK'
  BY DEF Inv, TypeOK, SpawnRefused, StopOK, Running, atomics, workers, leads
<1>3. MessagesOK'
  BY DEF Inv, TypeOK, SpawnRefused, MessagesOK, Running, Now, atomics, workers, leads
<1>4. ViewsOK'
  BY DEF Inv, TypeOK, SpawnRefused, ViewsOK, atomics, workers, leads
<1>5. LeaderOK'
  BY DEF Inv, TypeOK, SpawnRefused, LeaderOK, Running, Passed, Now, atomics, workers, leads
<1>6. HelpersOK'
  BY SMTT(60) DEF Inv, TypeOK, SpawnRefused, HelpersOK, HelperOK, Now, atomics, workers, leads
<1>7. Lost' = Lost /\ Arrived' = Arrived /\ Refused' = Refused \cup {h}
  BY DEF Inv, TypeOK, SpawnRefused, Lost, Arrived, Refused, Now, atomics, workers, leads
<1>8. LostOK'
  BY <1>7 DEF Inv, TypeOK, SpawnRefused, LostOK, atomics, workers, leads
<1>9. ArrivedOK'
  BY <1>7 DEF Inv, TypeOK, SpawnRefused, ArrivedOK, Counting, Running, atomics, workers, leads
<1>10. BarrierOK'
  BY <1>7 DEF Inv, TypeOK, SpawnRefused, BarrierOK, Passed, atomics, workers, leads
<1>11. LanesOK'
  BY LanesStay DEF Inv, TypeOK, SpawnRefused, Counting, Running, Now, atomics, workers, leads
<1>12. FilledOK'
  BY DEF Inv, TypeOK, SpawnRefused, FilledOK, Now, atomics, workers, leads
<1>13. TracedOK'
  BY DEF Inv, TypeOK, SpawnRefused, TracedOK, Now, Running, atomics, workers, leads
<1>14. EndOK'
  BY <1>7 DEF Inv, TypeOK, SpawnRefused, EndOK, Now, atomics, workers, leads
<1> QED
  BY <1>1, <1>2, <1>3, <1>4, <1>5, <1>6, <1>8, <1>9, <1>10, <1>11, <1>12,
     <1>13, <1>14 DEF Inv

LEMMA SpawnLoopEndsInv ==
  ASSUME Inv, SpawnLoopEnds
  PROVE  Inv'
<1> USE ConstantsOK
<1>1. TypeOK'
  BY DEF Inv, TypeOK, SpawnLoopEnds, LeaderPC, HelperPC, atomics, workers, leads
<1>2. StopOK'
  BY DEF Inv, TypeOK, SpawnLoopEnds, StopOK, Running, atomics, workers, leads
<1>3. MessagesOK'
  BY DEF Inv, TypeOK, SpawnLoopEnds, MessagesOK, Running, Now, atomics, workers, leads
<1>4. ViewsOK'
  BY DEF Inv, TypeOK, SpawnLoopEnds, ViewsOK, atomics, workers, leads
<1>5. LeaderOK'
  BY DEF Inv, TypeOK, SpawnLoopEnds, LeaderOK, Running, Passed, Now, atomics, workers, leads
<1>6. HelpersOK'
  BY SMTT(60) DEF Inv, TypeOK, SpawnLoopEnds, HelpersOK, HelperOK, Now, atomics, workers, leads
<1>7. Lost' = Lost /\ Arrived' = Arrived /\ Refused' = Refused
  BY DEF Inv, TypeOK, SpawnLoopEnds, Lost, Arrived, Refused, Now, atomics, workers, leads
<1>8. LostOK'
  BY <1>7 DEF Inv, TypeOK, SpawnLoopEnds, LostOK, atomics, workers, leads
<1>9. ArrivedOK'
  BY <1>7 DEF Inv, TypeOK, SpawnLoopEnds, ArrivedOK, Counting, Running, atomics, workers, leads
<1>10. BarrierOK'
  BY <1>7 DEF Inv, TypeOK, SpawnLoopEnds, BarrierOK, Passed, atomics, workers, leads
<1>11. LanesOK'
  BY LanesStay DEF Inv, TypeOK, SpawnLoopEnds, Counting, Running, Now, atomics, workers, leads
<1>12. FilledOK'
  BY DEF Inv, TypeOK, SpawnLoopEnds, FilledOK, Now, atomics, workers, leads
<1>13. TracedOK'
  BY DEF Inv, TypeOK, SpawnLoopEnds, TracedOK, Now, Running, atomics, workers, leads
<1>14. EndOK'
  BY <1>7 DEF Inv, TypeOK, SpawnLoopEnds, EndOK, Now, atomics, workers, leads
<1> QED
  BY <1>1, <1>2, <1>3, <1>4, <1>5, <1>6, <1>8, <1>9, <1>10, <1>11, <1>12,
     <1>13, <1>14 DEF Inv

LEMMA ChargeRefusedInv ==
  ASSUME Inv, ChargeRefused
  PROVE  Inv'
<1> USE ConstantsOK
<1>1. TypeOK'
  BY CardsOK, SMTT(60) DEF Inv, TypeOK, ChargeRefused, LeaderPC, HelperPC, workers, leads
<1>2. StopOK'
  BY DEF Inv, TypeOK, ChargeRefused, StopOK, Running, workers, leads
<1>3. MessagesOK'
  BY DEF Inv, TypeOK, ChargeRefused, MessagesOK, Running, Now, workers, leads
<1>4. ViewsOK'
  BY DEF Inv, TypeOK, ChargeRefused, ViewsOK, workers, leads
<1>5. LeaderOK'
  BY DEF Inv, TypeOK, ChargeRefused, LeaderOK, Running, Passed, Now, workers, leads
<1>6. HelpersOK'
  BY SMTT(60) DEF Inv, TypeOK, ChargeRefused, HelpersOK, HelperOK, Now, workers, leads
<1>7. Lost' = Lost /\ Arrived' = Arrived /\ Refused' = Refused
  BY DEF Inv, TypeOK, ChargeRefused, Lost, Arrived, Refused, Now, workers, leads
<1>8. LostOK'
  <2>1. pc[Leader] = "charge" /\ pc'[Leader] = "drain"
    BY DEF Inv, TypeOK, ChargeRefused
  <2> QED  BY <1>7, <2>1, CardsOK DEF Inv, LostOK, ChargeRefused
<1>9. ArrivedOK'
  BY <1>7 DEF Inv, TypeOK, ChargeRefused, ArrivedOK, Counting, Running, workers, leads
<1>10. BarrierOK'
  BY <1>7 DEF Inv, TypeOK, ChargeRefused, BarrierOK, Passed, workers, leads
<1>11. LanesOK'
  BY LanesStay DEF Inv, TypeOK, ChargeRefused, Counting, Running, Now, workers, leads
<1>12. FilledOK'
  BY DEF Inv, TypeOK, ChargeRefused, FilledOK, Now, workers, leads
<1>13. TracedOK'
  BY DEF Inv, TypeOK, ChargeRefused, TracedOK, Now, Running, workers, leads
<1>14. EndOK'
  BY <1>7 DEF Inv, TypeOK, ChargeRefused, EndOK, Now, workers, leads
<1> QED
  BY <1>1, <1>2, <1>3, <1>4, <1>5, <1>6, <1>8, <1>9, <1>10, <1>11, <1>12,
     <1>13, <1>14 DEF Inv

LEMMA LoadArrivedInv ==
  ASSUME Inv, LoadArrived
  PROVE  Inv'
<1> USE ConstantsOK
<1>1. TypeOK'
  BY DEF Inv, TypeOK, LoadArrived, LeaderPC, HelperPC, atomics
<1>2. StopOK'
  BY DEF Inv, TypeOK, LoadArrived, StopOK, Running, atomics
<1>3. MessagesOK'
  BY DEF Inv, TypeOK, LoadArrived, MessagesOK, Running, Now, atomics
<1>4. ViewsOK'
  BY DEF Inv, TypeOK, LoadArrived, ViewsOK, atomics
<1>5. LeaderOK'
  BY DEF Inv, TypeOK, LoadArrived, LeaderOK, Running, Passed, Now, atomics
<1>6. HelpersOK'
  BY SMTT(60) DEF Inv, TypeOK, LoadArrived, HelpersOK, HelperOK, Now, atomics
<1>7. Lost' = Lost /\ Arrived' = Arrived /\ Refused' = Refused
  BY DEF Inv, TypeOK, LoadArrived, Lost, Arrived, Refused, Now, atomics
<1>8. LostOK'
  BY <1>7 DEF Inv, TypeOK, LoadArrived, LostOK, atomics
<1>9. ArrivedOK'
  BY <1>7 DEF Inv, TypeOK, LoadArrived, ArrivedOK, Counting, Running, atomics
<1>10. BarrierOK'
  BY <1>7 DEF Inv, TypeOK, LoadArrived, BarrierOK, Passed, atomics
<1>11. LanesOK'
  BY LanesStay DEF Inv, TypeOK, LoadArrived, Counting, Running, Now, atomics
<1>12. FilledOK'
  BY DEF Inv, TypeOK, LoadArrived, FilledOK, Now, atomics
<1>13. TracedOK'
  BY DEF Inv, TypeOK, LoadArrived, TracedOK, Now, Running, atomics
<1>14. EndOK'
  BY <1>7 DEF Inv, TypeOK, LoadArrived, EndOK, Now, atomics
<1> QED
  BY <1>1, <1>2, <1>3, <1>4, <1>5, <1>6, <1>8, <1>9, <1>10, <1>11, <1>12,
     <1>13, <1>14 DEF Inv

LEMMA DisjointUnion ==
  ASSUME NEW S, NEW T, IsFiniteSet(S), IsFiniteSet(T), S \cap T = {}
  PROVE  /\ IsFiniteSet(S \cup T)
         /\ Cardinality(S \cup T) = Cardinality(S) + Cardinality(T)
<1>1. /\ IsFiniteSet(S \cup T)
      /\ Cardinality(S \cup T) = Cardinality(S) + Cardinality(T) - Cardinality(S \cap T)
  BY FS_Union
<1>2. Cardinality(S \cap T) = 0
  BY FS_EmptySet
<1>3. Cardinality(S) \in Nat /\ Cardinality(T) \in Nat
  BY FS_CardinalityType
<1> QED  BY <1>1, <1>2, <1>3

\* When the sum covers every helper, every helper was refused, was lost or has
\* arrived, and the leader has acquired what all arrivals released.
LEMMA BarrierMet ==
  ASSUME Inv, pc[Leader] = "loadLost", got + lost >= Cardinality(Helpers)
  PROVE  /\ \A h \in Helpers : h \in Refused \cup Lost \cup Arrived
         /\ arrivedHb \subseteq hb[Leader]
<1> DEFINE Gone == Refused \cup Lost
           All == Gone \cup Arrived
<1>1. /\ Refused \cap Lost = {} /\ Gone \cap Arrived = {}
      /\ All \subseteq Helpers
  BY DEF Refused, Lost, Arrived
<1>2. IsFiniteSet(Gone) /\ Cardinality(Gone) = Cardinality(Refused) + Cardinality(Lost)
  BY <1>1, CardsOK, DisjointUnion
<1>3. Cardinality(All) = Cardinality(Gone) + Cardinality(Arrived)
  BY <1>1, <1>2, CardsOK, DisjointUnion
<1>4. lost = Cardinality(Gone)
  BY <1>2, CardsOK DEF Inv, LostOK
<1>5. arrived = Cardinality(Arrived) /\ got <= arrived
      /\ (got = arrived => arrivedHb \subseteq hb[Leader])
  BY DEF Inv, ArrivedOK, Counting, Running
<1> HIDE DEF All
<1>6. /\ Cardinality(All) <= Cardinality(Helpers)
      /\ Cardinality(All) = Cardinality(Helpers) => All = Helpers
  BY <1>1, CardsOK, FS_Subset
<1>7. got = arrived /\ Cardinality(All) = Cardinality(Helpers)
  <2>1. got \in Nat /\ arrived \in Nat /\ lost \in Nat
    BY DEF Inv, TypeOK
  <2> QED  BY <1>2, <1>3, <1>4, <1>5, <1>6, <2>1, CardsOK
<1> QED  BY <1>5, <1>6, <1>7 DEF All

LEMMA LoadLostInv ==
  ASSUME Inv, LoadLost
  PROVE  Inv'
<1> USE ConstantsOK
<1>1. TypeOK'
  BY DEF Inv, TypeOK, LoadLost, LeaderPC, HelperPC, atomics, workers, leads
<1>2. StopOK'
  BY DEF Inv, TypeOK, LoadLost, StopOK, Running, atomics, workers, leads
<1>3. MessagesOK'
  BY DEF Inv, TypeOK, LoadLost, MessagesOK, Running, Now, atomics, workers, leads
<1>4. ViewsOK'
  BY DEF Inv, TypeOK, LoadLost, ViewsOK, atomics, workers, leads
<1>5. LeaderOK'
  BY DEF Inv, TypeOK, LoadLost, LeaderOK, Running, Passed, Now, atomics, workers, leads
<1>6. HelpersOK'
  BY SMTT(60) DEF Inv, TypeOK, LoadLost, HelpersOK, HelperOK, Now, atomics, workers, leads
<1>7. Lost' = Lost /\ Arrived' = Arrived /\ Refused' = Refused
  BY DEF Inv, TypeOK, LoadLost, Lost, Arrived, Refused, Now, atomics, workers, leads
<1>8. LostOK'
  BY <1>7 DEF Inv, TypeOK, LoadLost, LostOK, atomics, workers, leads
<1>9. ArrivedOK'
  <2>1. pc'[Leader] = "decide" => arrivedHb \subseteq hb[Leader]
    BY BarrierMet DEF Inv, TypeOK, LoadLost
  <2>2. pc[Leader] = "loadLost" /\ pc'[Leader] \in {"decide", "loadArrived"}
        /\ UNCHANGED <<arrived, arrivedHb, hb>>
    BY DEF Inv, TypeOK, LoadLost, atomics, workers
  <2> QED  BY <1>7, <2>1, <2>2 DEF Inv, ArrivedOK, Counting, Running
<1>10. BarrierOK'
  <2>1. pc'[Leader] = "decide" => \A h \in Helpers : h \in Refused \cup Lost \cup Arrived
    BY BarrierMet DEF Inv, TypeOK, LoadLost
  <2>2. pc'[Leader] \in {"decide", "loadArrived"}
    BY DEF Inv, TypeOK, LoadLost
  <2> QED  BY <1>7, <2>1, <2>2 DEF BarrierOK, Passed
<1>11. LanesOK'
  BY LanesStay DEF Inv, TypeOK, LoadLost, Counting, Running, Now, atomics, workers, leads
<1>12. FilledOK'
  BY DEF Inv, TypeOK, LoadLost, FilledOK, Now, atomics, workers, leads
<1>13. TracedOK'
  BY DEF Inv, TypeOK, LoadLost, TracedOK, Now, Running, atomics, workers, leads
<1>14. EndOK'
  BY <1>7 DEF Inv, TypeOK, LoadLost, EndOK, Now, atomics, workers, leads
<1> QED
  BY <1>1, <1>2, <1>3, <1>4, <1>5, <1>6, <1>8, <1>9, <1>10, <1>11, <1>12,
     <1>13, <1>14 DEF Inv

\* Comparing lost with the number of refused helpers finds out whether one unwound.
LEMMA NobodyLost ==
  ASSUME Inv, pc[Leader] = "decide"
  PROVE  lost > Cardinality(Refused) <=> Lost # {}
BY CardsOK DEF Inv, LostOK

\* When everybody has arrived and nobody was lost, every segment of the step is
\* computed and its computation happens before what the leader does next.
LEMMA StepComplete ==
  ASSUME Inv, pc[Leader] = "decide", ~(lost > Cardinality(Refused))
  PROVE  Before(Now + 1) \subseteq hb[Leader]
<1>1. Now \in Nat /\ Before(Now) \subseteq hb[Leader] /\ Now < Steps
  BY ConstantsOK DEF Inv, TypeOK, LeaderOK, Now, Running
<1>2. \A h \in Helpers : h \in Refused \cup Arrived
  BY NobodyLost DEF Inv, BarrierOK
<1>3. \A h \in Arrived : hb[h] \subseteq hb[Leader]
  BY DEF Inv, ArrivedOK, Counting, Running
<1>4. ASSUME NEW l \in 0 .. Lanes - 1 PROVE <<Now, l>> \in hb[Leader]
  <2>1. l < nextLane
    BY ConstantsOK DEF Inv, TypeOK, LanesOK
  <2>2. PICK w \in Workers :
          /\ step[w] = Now
          /\ \/ <<Now, l>> \in hb[w]
             \/ lane[w] = l /\ pc[w] \in {"fill", "bail", "lost"}
    BY <2>1 DEF Inv, LanesOK, Accounted, Counting, Running
  <2>3. CASE w = Leader
    BY <2>2, <2>3
  <2>4. CASE w \in Helpers
    <3>1. pc[w] \in {"refused", "park"}
      BY <1>2, <2>4 DEF Refused, Arrived
    <3>2. <<Now, l>> \in hb[w]
      BY <2>2, <3>1
    <3>3. w \in Arrived
      BY <1>2, <2>4, <3>2 DEF Inv, HelpersOK, HelperOK, Refused
    <3> QED  BY <1>3, <3>2, <3>3
  <2> QED  BY <2>3, <2>4, ConstantsOK
<1> QED  BY <1>1, <1>4, BeforeStep

LEMMA DecideInv ==
  ASSUME Inv, Decide
  PROVE  Inv'
<1> USE ConstantsOK
<1>1. TypeOK'
  BY DEF Inv, TypeOK, Decide, LeaderPC, HelperPC, atomics, workers, leads
<1>2. StopOK'
  BY DEF Inv, TypeOK, Decide, StopOK, Running, atomics, workers, leads
<1>3. MessagesOK'
  BY DEF Inv, TypeOK, Decide, MessagesOK, Running, Now, atomics, workers, leads
<1>4. ViewsOK'
  BY DEF Inv, TypeOK, Decide, ViewsOK, atomics, workers, leads
<1>5. LeaderOK'
  <2>1. pc'[Leader] \in {"trace", "reset"} => Before(Now + 1) \subseteq hb[Leader]
    BY StepComplete DEF Inv, TypeOK, Decide
  <2>2. pc[Leader] = "decide" /\ pc'[Leader] \in {"abortStop", "trace", "reset"}
        /\ UNCHANGED <<step, hb>>
    BY DEF Inv, TypeOK, Decide, workers
  <2> QED  BY <2>1, <2>2 DEF Inv, LeaderOK, Running, Passed, Now
<1>6. HelpersOK'
  BY SMTT(60) DEF Inv, TypeOK, Decide, HelpersOK, HelperOK, Now, atomics, workers, leads
<1>7. Lost' = Lost /\ Arrived' = Arrived /\ Refused' = Refused
  BY DEF Inv, TypeOK, Decide, Lost, Arrived, Refused, Now, atomics, workers, leads
<1>8. LostOK'
  BY <1>7 DEF Inv, TypeOK, Decide, LostOK, atomics, workers, leads
<1>9. ArrivedOK'
  BY <1>7 DEF Inv, TypeOK, Decide, ArrivedOK, Counting, Running, atomics, workers, leads
<1>10. BarrierOK'
  <2>1. pc'[Leader] \in {"trace", "reset"} => Lost = {}
    BY NobodyLost DEF Inv, TypeOK, Decide
  <2>2. pc[Leader] = "decide" /\ pc'[Leader] \in {"abortStop", "trace", "reset"}
    BY DEF Inv, TypeOK, Decide
  <2> QED  BY <1>7, <2>1, <2>2 DEF Inv, BarrierOK, Passed
<1>11. LanesOK'
  BY LanesStay DEF Inv, TypeOK, Decide, Counting, Running, Now, atomics, workers, leads
<1>12. FilledOK'
  BY DEF Inv, TypeOK, Decide, FilledOK, Now, atomics, workers, leads
<1>13. TracedOK'
  <2>1. pc[Leader] = "decide" /\ UNCHANGED <<step, traced>>
        /\ Now \in Nat /\ traced \in Nat
    BY DEF Inv, TypeOK, Decide, workers, leads, Now
  <2>2. \/ pc'[Leader] = "abortStop"
        \/ pc'[Leader] = "trace" /\ Now % SyncPoints = SyncPoints - 1
        \/ pc'[Leader] = "reset" /\ Now % SyncPoints # SyncPoints - 1
    BY DEF Inv, TypeOK, Decide, Now
  <2>3. SyncPoints * traced <= Now /\ Now < SyncPoints * traced + SyncPoints
    BY <2>1 DEF Inv, TracedOK, Running
  <2>4. pc'[Leader] = "reset" => Now + 1 < SyncPoints * traced + SyncPoints
    BY <2>1, <2>2, <2>3 DEF SyncPoints
  <2> QED  BY <2>1, <2>2, <2>3, <2>4 DEF Inv, TracedOK, Now, Running, SyncPoints
<1>14. EndOK'
  <2>1. pc'[Leader] = "abortStop" => Lost # {}
    BY NobodyLost DEF Inv, TypeOK, Decide
  <2>2. pc'[Leader] \in {"abortStop", "trace", "reset"}
    BY DEF Inv, TypeOK, Decide
  <2> QED  BY <1>7, <2>1, <2>2 DEF EndOK
<1> QED
  BY <1>1, <1>2, <1>3, <1>4, <1>5, <1>6, <1>8, <1>9, <1>10, <1>11, <1>12,
     <1>13, <1>14 DEF Inv

LEMMA StoreStopInv ==
  ASSUME Inv, StoreStop
  PROVE  Inv'
<1> USE ConstantsOK
<1>1. TypeOK'
  BY DEF Inv, TypeOK, StoreStop, LeaderPC, HelperPC, leads
<1>2. StopOK'
  BY DEF Inv, TypeOK, StoreStop, StopOK, Running, leads
<1>3. MessagesOK'
  BY DEF Inv, TypeOK, StoreStop, MessagesOK, Running, Now, leads
<1>4. ViewsOK'
  BY DEF Inv, TypeOK, StoreStop, ViewsOK, leads
<1>5. LeaderOK'
  BY DEF Inv, TypeOK, StoreStop, LeaderOK, Running, Passed, Now, leads
<1>6. HelpersOK'
  BY SMTT(60) DEF Inv, TypeOK, StoreStop, HelpersOK, HelperOK, Now, leads
<1>7. Lost' = Lost /\ Arrived' = Arrived /\ Refused' = Refused
  BY DEF Inv, TypeOK, StoreStop, Lost, Arrived, Refused, Now, leads
<1>8. LostOK'
  BY <1>7 DEF Inv, TypeOK, StoreStop, LostOK, leads
<1>9. ArrivedOK'
  BY <1>7 DEF Inv, TypeOK, StoreStop, ArrivedOK, Counting, Running, leads
<1>10. BarrierOK'
  BY <1>7 DEF Inv, TypeOK, StoreStop, BarrierOK, Passed, leads
<1>11. LanesOK'
  BY LanesStay DEF Inv, TypeOK, StoreStop, Counting, Running, Now, leads
<1>12. FilledOK'
  BY DEF Inv, TypeOK, StoreStop, FilledOK, Now, leads
<1>13. TracedOK'
  BY DEF Inv, TypeOK, StoreStop, TracedOK, Now, Running, leads
<1>14. EndOK'
  BY <1>7 DEF Inv, TypeOK, StoreStop, EndOK, Now, leads
<1> QED
  BY <1>1, <1>2, <1>3, <1>4, <1>5, <1>6, <1>8, <1>9, <1>10, <1>11, <1>12,
     <1>13, <1>14 DEF Inv

LEMMA BumpGenerationInv ==
  ASSUME Inv, BumpGeneration
  PROVE  Inv'
<1> USE ConstantsOK
<1>1. TypeOK'
  <2>1. generation' \in Seq(Message) /\ generation' # <<>>
    <3>1. generation[Len(generation)] \in Message
      BY DEF Inv, TypeOK
    <3>2. GenMessage(WrapInc(generation[Len(generation)].val)) \in Message
      BY <3>1, WrapIncOK DEF Inv, TypeOK, GenMessage, Message
    <3>3. generation \in Seq(Message)
      BY DEF Inv, TypeOK
    <3>4. generation' =
            Append(generation, GenMessage(WrapInc(generation[Len(generation)].val)))
      BY DEF BumpGeneration
    <3> QED  BY <3>2, <3>3, <3>4
  <2> QED  BY <2>1 DEF Inv, TypeOK, BumpGeneration, LeaderPC, HelperPC, workers, leads
<1>2. StopOK'
  BY DEF Inv, TypeOK, BumpGeneration, StopOK, Running, workers, leads
<1>3. MessagesOK'
  <2>1. knowsStop[Leader] /\ pc'[Leader] \in {"dropStop", "join"}
    BY DEF Inv, TypeOK, BumpGeneration, StopOK
  <2>2. PICK v : generation' = Append(generation, GenMessage(v))
    BY DEF BumpGeneration
  <2>3. /\ Len(generation') = Len(generation) + 1
        /\ \A i \in DOMAIN generation : generation'[i] = generation[i]
        /\ generation'[Len(generation')].stop
        /\ DOMAIN generation' = DOMAIN generation \cup {Len(generation')}
    BY <2>1, <2>2 DEF Inv, TypeOK, GenMessage
  <2>4. Now' = Now /\ Now \in Nat
    BY DEF Inv, TypeOK, BumpGeneration, workers, Now
  <2>5. Len(generation') > Now + 1 /\ Len(generation) \in Nat
    BY <2>3, <2>4 DEF Inv, TypeOK, MessagesOK
  <2> QED  BY <2>1, <2>3, <2>4, <2>5 DEF Inv, MessagesOK, Running
<1>4. ViewsOK'
  <2>1. PICK v : generation' = Append(generation, GenMessage(v))
    BY DEF BumpGeneration
  <2>2. \A i \in DOMAIN generation' :
          generation'[i].hb = hb[Leader]
            \/ (i \in DOMAIN generation /\ generation'[i] = generation[i])
    BY <2>1 DEF Inv, TypeOK, GenMessage
  <2> QED  BY <2>2 DEF Inv, BumpGeneration, ViewsOK, workers
<1>5. LeaderOK'
  BY DEF Inv, TypeOK, BumpGeneration, LeaderOK, Running, Passed, Now, workers, leads
<1>6. HelpersOK'
  <2>1. \A i \in DOMAIN generation : generation'[i] = generation[i]
    BY DEF Inv, TypeOK, BumpGeneration
  <2>2. Len(generation) \in Nat /\ Len(generation) >= Now + 1 /\ Now \in Nat
        /\ DOMAIN generation = 1 .. Len(generation)
    BY DEF Inv, TypeOK, MessagesOK, Now
  <2>3. \A h \in Helpers : pc'[h] = pc[h]
    BY DEF Inv, TypeOK, BumpGeneration
  <2>4. UNCHANGED <<step, lastRead, count, hb, knowsStop>> /\ Now' = Now
        /\ pc[Leader] # "spawn"
    BY DEF BumpGeneration, workers, Now
  <2>5. ASSUME NEW h \in Helpers PROVE HelperOK(h)'
    <3>1. HelperOK(h) /\ step[h] \in Nat
      BY DEF Inv, TypeOK, HelpersOK
    <3>2. step[h] <= Now => step[h] + 1 \in DOMAIN generation
      BY <2>2, <3>1
    <3>3. step[h] + 1 <= Now => step[h] + 2 \in DOMAIN generation
      BY <2>2, <3>1
    <3> QED  BY <2>1, <2>2, <2>3, <2>4, <3>1, <3>2, <3>3 DEF HelperOK
  <2> QED  BY <2>5 DEF HelpersOK
<1>7. Lost' = Lost /\ Arrived' = Arrived /\ Refused' = Refused
  BY DEF Inv, TypeOK, BumpGeneration, Lost, Arrived, Refused, Now, workers, leads
<1>8. LostOK'
  BY <1>7 DEF Inv, TypeOK, BumpGeneration, LostOK, workers, leads
<1>9. ArrivedOK'
  BY <1>7 DEF Inv, TypeOK, BumpGeneration, ArrivedOK, Counting, Running, workers, leads
<1>10. BarrierOK'
  BY <1>7 DEF Inv, TypeOK, BumpGeneration, BarrierOK, Passed, workers, leads
<1>11. LanesOK'
  BY LanesStay DEF Inv, TypeOK, BumpGeneration, Counting, Running, Now, workers, leads
<1>12. FilledOK'
  BY DEF Inv, TypeOK, BumpGeneration, FilledOK, Now, workers, leads
<1>13. TracedOK'
  BY DEF Inv, TypeOK, BumpGeneration, TracedOK, Now, Running, workers, leads
<1>14. EndOK'
  BY <1>7 DEF Inv, TypeOK, BumpGeneration, EndOK, Now, workers, leads
<1> QED
  BY <1>1, <1>2, <1>3, <1>4, <1>5, <1>6, <1>8, <1>9, <1>10, <1>11, <1>12,
     <1>13, <1>14 DEF Inv

LEMMA TraceReturnsInv ==
  ASSUME Inv, TraceReturns
  PROVE  Inv'
<1> USE ConstantsOK
<1>1. TypeOK'
  <2>1. traced + 1 <= Passes
    BY DEF Inv, TypeOK, TraceReturns, TracedOK, LeaderOK, Running, SyncPoints, Now
  <2> QED  BY <2>1 DEF Inv, TypeOK, TraceReturns, LeaderPC, HelperPC, atomics, workers
<1>2. StopOK'
  BY DEF Inv, TypeOK, TraceReturns, StopOK, Running, atomics, workers
<1>3. MessagesOK'
  BY DEF Inv, TypeOK, TraceReturns, MessagesOK, Running, Now, atomics, workers
<1>4. ViewsOK'
  BY DEF Inv, TypeOK, TraceReturns, ViewsOK, atomics, workers
<1>5. LeaderOK'
  BY DEF Inv, TypeOK, TraceReturns, LeaderOK, Running, Passed, Now, atomics, workers
<1>6. HelpersOK'
  BY SMTT(60) DEF Inv, TypeOK, TraceReturns, HelpersOK, HelperOK, Now, atomics, workers
<1>7. Lost' = Lost /\ Arrived' = Arrived /\ Refused' = Refused
  BY DEF Inv, TypeOK, TraceReturns, Lost, Arrived, Refused, Now, atomics, workers
<1>8. LostOK'
  BY <1>7 DEF Inv, TypeOK, TraceReturns, LostOK, atomics, workers
<1>9. ArrivedOK'
  BY <1>7 DEF Inv, TypeOK, TraceReturns, ArrivedOK, Counting, Running, atomics, workers
<1>10. BarrierOK'
  BY <1>7 DEF Inv, TypeOK, TraceReturns, BarrierOK, Passed, atomics, workers
<1>11. LanesOK'
  BY LanesStay DEF Inv, TypeOK, TraceReturns, Counting, Running, Now, atomics, workers
<1>12. FilledOK'
  BY DEF Inv, TypeOK, TraceReturns, FilledOK, Now, atomics, workers
<1>13. TracedOK'
  <2>1. pc[Leader] = "trace" /\ pc'[Leader] = "reset" /\ UNCHANGED step
        /\ traced' = traced + 1 /\ Now \in Nat /\ traced \in Nat
    BY DEF Inv, TypeOK, TraceReturns, workers, Now
  <2>2. /\ SyncPoints * traced <= Now /\ Now < SyncPoints * traced + SyncPoints
        /\ Now % SyncPoints = SyncPoints - 1 /\ Now < Steps
    BY <2>1 DEF Inv, TracedOK, LeaderOK, Running
  <2>3. Now = SyncPoints * traced + 3
    BY <2>1, <2>2 DEF SyncPoints
  <2> QED  BY <2>1, <2>2, <2>3 DEF TracedOK, Now, Running, SyncPoints
<1>14. EndOK'
  BY <1>7 DEF Inv, TypeOK, TraceReturns, EndOK, Now, atomics, workers
<1> QED
  BY <1>1, <1>2, <1>3, <1>4, <1>5, <1>6, <1>8, <1>9, <1>10, <1>11, <1>12,
     <1>13, <1>14 DEF Inv

LEMMA TracePanicsInv ==
  ASSUME Inv, TracePanics
  PROVE  Inv'
<1> USE ConstantsOK
<1>1. TypeOK'
  BY DEF Inv, TypeOK, TracePanics, LeaderPC, HelperPC, atomics, workers
<1>2. StopOK'
  BY DEF Inv, TypeOK, TracePanics, StopOK, Running, atomics, workers
<1>3. MessagesOK'
  BY DEF Inv, TypeOK, TracePanics, MessagesOK, Running, Now, atomics, workers
<1>4. ViewsOK'
  BY DEF Inv, TypeOK, TracePanics, ViewsOK, atomics, workers
<1>5. LeaderOK'
  BY DEF Inv, TypeOK, TracePanics, LeaderOK, Running, Passed, Now, atomics, workers
<1>6. HelpersOK'
  BY SMTT(60) DEF Inv, TypeOK, TracePanics, HelpersOK, HelperOK, Now, atomics, workers
<1>7. Lost' = Lost /\ Arrived' = Arrived /\ Refused' = Refused
  BY DEF Inv, TypeOK, TracePanics, Lost, Arrived, Refused, Now, atomics, workers
<1>8. LostOK'
  BY <1>7 DEF Inv, TypeOK, TracePanics, LostOK, atomics, workers
<1>9. ArrivedOK'
  BY <1>7 DEF Inv, TypeOK, TracePanics, ArrivedOK, Counting, Running, atomics, workers
<1>10. BarrierOK'
  BY <1>7 DEF Inv, TypeOK, TracePanics, BarrierOK, Passed, atomics, workers
<1>11. LanesOK'
  BY LanesStay DEF Inv, TypeOK, TracePanics, Counting, Running, Now, atomics, workers
<1>12. FilledOK'
  BY DEF Inv, TypeOK, TracePanics, FilledOK, Now, atomics, workers
<1>13. TracedOK'
  BY DEF Inv, TypeOK, TracePanics, TracedOK, Now, Running, atomics, workers
<1>14. EndOK'
  BY <1>7 DEF Inv, TypeOK, TracePanics, EndOK, Now, atomics, workers
<1> QED
  BY <1>1, <1>2, <1>3, <1>4, <1>5, <1>6, <1>8, <1>9, <1>10, <1>11, <1>12,
     <1>13, <1>14 DEF Inv

LEMMA ResetCountersInv ==
  ASSUME Inv, ResetCounters
  PROVE  Inv'
<1> USE ConstantsOK
<1>1. TypeOK'
  BY DEF Inv, TypeOK, ResetCounters, LeaderPC, HelperPC, workers, leads
<1>2. StopOK'
  BY DEF Inv, TypeOK, ResetCounters, StopOK, Running, workers, leads
<1>3. MessagesOK'
  BY DEF Inv, TypeOK, ResetCounters, MessagesOK, Running, Now, workers, leads
<1>4. ViewsOK'
  BY DEF Inv, TypeOK, ResetCounters, ViewsOK, workers, leads
<1>5. LeaderOK'
  BY DEF Inv, TypeOK, ResetCounters, LeaderOK, Running, Passed, Now, workers, leads
<1>6. HelpersOK'
  BY SMTT(60) DEF Inv, TypeOK, ResetCounters, HelpersOK, HelperOK, Now, workers, leads
<1>7. Lost' = Lost /\ Arrived' = Arrived /\ Refused' = Refused
  BY DEF Inv, TypeOK, ResetCounters, Lost, Arrived, Refused, Now, workers, leads
<1>8. LostOK'
  BY <1>7 DEF Inv, TypeOK, ResetCounters, LostOK, workers, leads
<1>9. ArrivedOK'
  BY <1>7 DEF Inv, TypeOK, ResetCounters, ArrivedOK, Counting, Running, workers, leads
<1>10. BarrierOK'
  BY <1>7 DEF Inv, TypeOK, ResetCounters, BarrierOK, Passed, workers, leads
<1>11. LanesOK'
  <2>1. \A w \in Workers : pc'[w] # "fill"
    BY NobodyFills DEF Inv, TypeOK, ResetCounters, Passed
  <2> QED  BY <2>1 DEF Inv, TypeOK, ResetCounters, LanesOK, Counting
<1>12. FilledOK'
  BY DEF Inv, TypeOK, ResetCounters, FilledOK, Now, workers, leads
<1>13. TracedOK'
  BY DEF Inv, TypeOK, ResetCounters, TracedOK, Now, Running, workers, leads
<1>14. EndOK'
  BY <1>7 DEF Inv, TypeOK, ResetCounters, EndOK, Now, workers, leads
<1> QED
  BY <1>1, <1>2, <1>3, <1>4, <1>5, <1>6, <1>8, <1>9, <1>10, <1>11, <1>12,
     <1>13, <1>14 DEF Inv

\* What a publication appends.
PublishedMessage(log) ==
  /\ log \in Seq(Message) /\ log # <<>>
  /\ Len(log) = Len(generation) + 1
  /\ DOMAIN log = DOMAIN generation \cup {Len(log)}
  /\ \A i \in DOMAIN generation : log[i] = generation[i]
  /\ log[Len(log)].hb = hb[Leader]
  /\ log[Len(log)].stop = knowsStop[Leader]

LEMMA PublishAppends ==
  ASSUME Inv, PublishGeneration
  PROVE  /\ PublishedMessage(generation')
         /\ Now' = Now + 1 /\ Now \in Nat
<1>1. count'[Leader] \in GenValue
  BY ConstantsOK, WrapIncOK DEF Inv, TypeOK, PublishGeneration
<1>2. GenMessage(count'[Leader]) \in Message
  BY <1>1, ConstantsOK DEF Inv, TypeOK, GenMessage, Message
<1>3. PublishedMessage(generation')
  <2> DEFINE m == GenMessage(count'[Leader])
  <2>1. generation' = Append(generation, m) /\ generation \in Seq(Message) /\ m \in Message
    BY <1>2 DEF Inv, TypeOK, PublishGeneration
  <2>2. m.hb = hb[Leader] /\ m.stop = knowsStop[Leader]
    BY DEF GenMessage
  <2> HIDE DEF m
  <2>3. /\ generation' \in Seq(Message) /\ generation' # <<>>
        /\ Len(generation') = Len(generation) + 1 /\ Len(generation) \in Nat
        /\ generation'[Len(generation) + 1] = m
    BY <2>1
  <2>4. \A i \in DOMAIN generation : generation'[i] = generation[i]
    BY <2>1
  <2>5. DOMAIN generation' = DOMAIN generation \cup {Len(generation')}
    BY <2>1, <2>3
  <2> QED  BY <2>2, <2>3, <2>4, <2>5 DEF PublishedMessage
<1>4. Now' = Now + 1 /\ Now \in Nat
  BY ConstantsOK DEF Inv, TypeOK, PublishGeneration, Now
<1> QED  BY <1>3, <1>4

LEMMA PublishGenerationInv ==
  ASSUME Inv, PublishGeneration
  PROVE  Inv'
<1> USE ConstantsOK
<1>1. TypeOK'
  <2>1. PublishedMessage(generation')
    BY PublishAppends
  <2>2. step[Leader] + 1 \in 0 .. Steps
    BY DEF Inv, TypeOK, PublishGeneration, LeaderOK, Running, Now
  <2> QED  BY <2>1, <2>2, WrapIncOK
           DEF Inv, TypeOK, PublishGeneration, PublishedMessage, LeaderPC, HelperPC, leads
<1>2. StopOK'
  <2>1. PublishedMessage(generation')
    BY PublishAppends
  <2> QED  BY <2>1 DEF Inv, TypeOK, PublishGeneration, PublishedMessage, StopOK, Running
<1>3. MessagesOK'
  <2>1. PublishedMessage(generation') /\ Now' = Now + 1 /\ Now \in Nat
    BY PublishAppends
  <2>2. Len(generation) = Now + 1
    BY DEF Inv, MessagesOK, PublishGeneration, Running
  <2>3. Before(Now + 1) \subseteq hb[Leader]
    BY DEF Inv, LeaderOK, PublishGeneration, Passed
  <2> QED  BY <2>1, <2>2, <2>3 DEF Inv, MessagesOK, PublishedMessage
<1>4. ViewsOK'
  <2>1. PublishedMessage(generation')
    BY PublishAppends
  <2> QED  BY <2>1 DEF Inv, PublishGeneration, PublishedMessage, ViewsOK
<1>5. LeaderOK'
  BY DEF Inv, TypeOK, PublishGeneration, LeaderOK, Running, Passed, Now, leads
<1>6. HelpersOK'
  <2>1. PublishedMessage(generation') /\ Now' = Now + 1 /\ Now \in Nat
    BY PublishAppends
  <2>2. Len(generation) = Now + 1 /\ DOMAIN generation = 1 .. Len(generation)
    BY DEF Inv, TypeOK, MessagesOK, PublishGeneration, Running
  <2>3. ASSUME NEW h \in Helpers PROVE HelperOK(h)'
    <3>1. HelperOK(h)
      BY DEF Inv, HelpersOK
    <3>2. pc[h] = "refused" \/ (pc[h] = "park" /\ step[h] = Now)
      BY DEF Inv, BarrierOK, PublishGeneration, Passed, Refused, Arrived
    <3>3. pc'[h] = pc[h] /\ step'[h] = step[h] /\ count'[h] = count[h]
          /\ UNCHANGED <<lastRead, hb>>
      BY DEF Inv, TypeOK, PublishGeneration
    <3>4. pc[h] = "park" => generation'[step[h] + 1] = generation[step[h] + 1]
      BY <2>1, <2>2, <3>2 DEF PublishedMessage
    <3> QED  BY <2>1, <3>1, <3>2, <3>3, <3>4 DEF HelperOK
  <2> QED  BY <2>3 DEF HelpersOK
<1>7. Lost' = Lost /\ Refused' = Refused
  BY DEF Inv, TypeOK, PublishGeneration, Lost, Arrived, Refused, Now, leads
<1>8. LostOK'
  BY <1>7 DEF Inv, TypeOK, PublishGeneration, LostOK, leads
<1>9. ArrivedOK'
  <2>1. Now' = Now + 1 /\ Now \in Nat
    BY PublishAppends
  <2>2. Arrived' = {}
    <3>1. \A h \in Helpers : pc[h] = "park" => step[h] = Now
      BY DEF Inv, BarrierOK, PublishGeneration, Passed, Refused, Arrived
    <3>2. \A h \in Helpers : pc'[h] = pc[h] /\ step'[h] = step[h]
      BY DEF Inv, TypeOK, PublishGeneration
    <3> QED  BY <2>1, <3>1, <3>2 DEF Arrived
  <2>3. arrived' = 0 /\ pc'[Leader] \in {"drain", "dropStop"}
    BY DEF Inv, TypeOK, PublishGeneration, ArrivedOK
  <2> QED  BY <2>2, <2>3, FS_EmptySet DEF ArrivedOK
<1>10. BarrierOK'
  BY <1>7 DEF Inv, TypeOK, PublishGeneration, BarrierOK, Passed, leads
<1>11. LanesOK'
  <2>1. \A w \in Workers : pc'[w] # "fill"
    BY NobodyFills DEF Inv, TypeOK, PublishGeneration, Passed
  <2>2. nextLane' = 0 /\ pc'[Leader] \in {"drain", "dropStop"}
    BY DEF Inv, TypeOK, PublishGeneration, LanesOK
  <2> QED  BY <2>1, <2>2 DEF LanesOK
<1>12. FilledOK'
  <2>1. Now' = Now + 1 /\ Now \in Nat
    BY PublishAppends
  <2>2. filled' \subseteq Before(Now + 1)
    BY DEF Inv, PublishGeneration, FilledOK
  <2>3. Before(Now + 1) \subseteq Before(Now + 2) /\ \A l : <<Now + 1, l>> \notin Before(Now + 1)
    BY <2>1, BeforeStep
  <2> QED  BY <2>1, <2>2, <2>3 DEF FilledOK
<1>13. TracedOK'
  <2>1. Now' = Now + 1 /\ Now \in Nat /\ traced \in Nat /\ UNCHANGED traced
    BY PublishAppends DEF Inv, TypeOK, PublishGeneration, leads
  <2>2. SyncPoints * traced <= Now + 1 /\ Now + 1 < SyncPoints * traced + SyncPoints
    BY DEF Inv, PublishGeneration, TracedOK
  <2>3. pc'[Leader] \in {"drain", "dropStop"}
    BY DEF Inv, TypeOK, PublishGeneration
  <2>4. Now + 1 = Steps => traced = Passes
    BY <2>1, <2>2 DEF SyncPoints
  <2> QED  BY <2>1, <2>2, <2>3, <2>4 DEF TracedOK, Running
<1>14. EndOK'
  <2>1. Now' = Now + 1 /\ Now \in Nat /\ Now < Steps
    BY PublishAppends DEF Inv, PublishGeneration, LeaderOK, Running
  <2>2. pc'[Leader] = IF Now + 1 < Steps THEN "drain" ELSE "dropStop"
    BY DEF Inv, TypeOK, PublishGeneration, Now
  <2>3. Now + 1 < Steps \/ Now + 1 = Steps
    BY <2>1
  <2> QED  BY <2>1, <2>2, <2>3 DEF EndOK
<1> QED
  BY <1>1, <1>2, <1>3, <1>4, <1>5, <1>6, <1>8, <1>9, <1>10, <1>11, <1>12,
     <1>13, <1>14 DEF Inv

LEMMA JoinScopeInv ==
  ASSUME Inv, JoinScope
  PROVE  Inv'
<1> USE ConstantsOK
<1>1. TypeOK'
  <2>1. UNION {hb[w] : w \in Workers} \subseteq Segment
    <3>1. \A w \in Workers : hb[w] \subseteq Segment
      BY DEF Inv, TypeOK
    <3> QED  BY <3>1
  <2>2. hb' \in [Workers -> SUBSET Segment]
    <3>1. hb \in [Workers -> SUBSET Segment]
      BY DEF Inv, TypeOK
    <3>2. hb' = [hb EXCEPT ![Leader] = UNION {hb[w] : w \in Workers}]
      BY DEF JoinScope
    <3> QED  BY <2>1, <3>1, <3>2
  <2>3. /\ pc' \in [Workers -> LeaderPC \cup HelperPC]
        /\ pc'[Leader] \in LeaderPC
        /\ \A h \in Helpers : pc'[h] \in HelperPC
    BY DEF Inv, TypeOK, JoinScope, LeaderPC
  <2>4. UNCHANGED <<atomics, step, lane, count, lastRead, knowsStop, leads, filled>>
    BY DEF JoinScope
  <2> QED  BY <2>2, <2>3, <2>4 DEF Inv, TypeOK, atomics, leads
<1>2. StopOK'
  BY DEF Inv, TypeOK, JoinScope, StopOK, Running, atomics, leads
<1>3. MessagesOK'
  BY DEF Inv, TypeOK, JoinScope, MessagesOK, Running, Now, atomics, leads
<1>4. ViewsOK'
  BY SMTT(60) DEF Inv, TypeOK, JoinScope, ViewsOK, atomics, leads
<1>5. LeaderOK'
  BY SMTT(60) DEF Inv, TypeOK, JoinScope, LeaderOK, Running, Passed, Now, atomics, leads
<1>6. HelpersOK'
  <2>1. UNCHANGED <<step, generation, count, lastRead, knowsStop>>
    BY DEF JoinScope, atomics
  <2>2. Leader \in Workers /\ Leader \notin Helpers /\ Helpers \subseteq Workers
    BY ConstantsOK
  <2>3. ASSUME NEW h \in Helpers PROVE HelperOK(h)'
    <3>1. pc'[h] = pc[h] /\ hb'[h] = hb[h]
      BY <2>2 DEF Inv, TypeOK, JoinScope
    <3>2. pc[h] \in {"refused", "lost", "done"} /\ HelperOK(h)
      BY DEF Inv, JoinScope, HelpersOK
    <3> QED  BY <3>1, <3>2 DEF HelperOK
  <2> QED  BY <2>3 DEF HelpersOK
<1>7. Lost' = Lost /\ Arrived' = Arrived /\ Refused' = Refused
  BY DEF Inv, TypeOK, JoinScope, Lost, Arrived, Refused, Now, atomics, leads
<1>8. LostOK'
  BY <1>7 DEF Inv, TypeOK, JoinScope, LostOK, atomics, leads
<1>9. ArrivedOK'
  BY <1>7 DEF Inv, TypeOK, JoinScope, ArrivedOK, Counting, Running, atomics, leads
<1>10. BarrierOK'
  BY <1>7 DEF Inv, TypeOK, JoinScope, BarrierOK, Passed, atomics, leads
<1>11. LanesOK'
  <2>1. \A v \in Workers : hb[v] \subseteq hb'[v]
    BY DEF Inv, TypeOK, JoinScope
  <2>2. \A v \in Workers : v # Leader => pc'[v] = pc[v]
    BY DEF Inv, TypeOK, JoinScope
  <2>3. pc[Leader] = "join" /\ pc'[Leader] \in {"returned", "unwound"}
        /\ UNCHANGED <<step, lane, nextLane>>
    BY DEF Inv, TypeOK, JoinScope, atomics
  <2> QED  BY <2>1, <2>2, <2>3, LanesStay DEF Inv, TypeOK, Now, Counting, Running
<1>12. FilledOK'
  BY DEF Inv, TypeOK, JoinScope, FilledOK, Now, atomics, leads
<1>13. TracedOK'
  BY DEF Inv, TypeOK, JoinScope, TracedOK, Now, Running, atomics, leads
<1>14. EndOK'
  <2>1. pc'[Leader] \in {"returned", "unwound"}
        /\ (pc'[Leader] = "returned" => ~unwinding /\ Lost = {})
    BY DEF Inv, TypeOK, JoinScope, Lost
  <2> QED  BY <2>1 DEF Inv, EndOK, JoinScope, Now
<1> QED
  BY <1>1, <1>2, <1>3, <1>4, <1>5, <1>6, <1>8, <1>9, <1>10, <1>11, <1>12,
     <1>13, <1>14 DEF Inv

-----------------------------------------------------------------------------
(* The invariant is inductive *)

LEMMA InitInv == Init => Inv
<1> SUFFICES ASSUME Init PROVE Inv
  OBVIOUS
<1> USE ConstantsOK
<1>1. 0 \in GenValue
  BY FillPoolAssumption DEF GenValue
<1>2. Before(0) = {}
  BY DEF Before, Segment
<1>3. Lost = {} /\ Arrived = {} /\ Refused = {}
  BY DEF Init, Lost, Arrived, Refused
<1>4. TypeOK
  <2>1. generation \in Seq(Message) /\ generation # <<>>
    <3> DEFINE m == [val |-> 0, hb |-> {}, stop |-> FALSE]
    <3>1. m \in Message
      BY <1>1 DEF Message
    <3>2. generation = <<m>>
      BY DEF Init
    <3> HIDE DEF m
    <3> QED  BY <3>1, <3>2
  <2>2. /\ pc \in [Workers -> LeaderPC \cup HelperPC]
        /\ pc[Leader] \in LeaderPC
        /\ \A h \in Helpers : pc[h] \in HelperPC
    BY DEF Init, LeaderPC, HelperPC
  <2>3. /\ step \in [Workers -> 0 .. Steps]
        /\ lane \in [Workers -> 0 .. Lanes - 1]
        /\ count \in [Workers -> GenValue]
        /\ lastRead \in [Workers -> Nat]
    BY <1>1 DEF Init
  <2>4. /\ hb \in [Workers -> SUBSET Segment]
        /\ knowsStop \in [Workers -> BOOLEAN]
    BY DEF Init
  <2>5. /\ nextLane \in Nat /\ arrived \in Nat /\ lost \in Nat /\ got \in Nat
        /\ traced \in 0 .. Passes
    BY DEF Init
  <2>6. stop \in BOOLEAN /\ unwinding \in BOOLEAN
    BY Zenon DEF Init
  <2>7. arrivedHb \subseteq Segment /\ filled \subseteq Segment
    BY DEF Init
  <2> QED  BY <2>1, <2>2, <2>3, <2>4, <2>5, <2>6, <2>7 DEF TypeOK
<1>5. pc[Leader] = "spawn" /\ Now = 0 /\ Len(generation) = 1
  BY DEF Init, Now
<1>6. StopOK
  BY <1>5 DEF Init, StopOK
<1>7. MessagesOK
  BY <1>2, <1>5 DEF Init, MessagesOK
<1>8. ViewsOK
  BY DEF Init, ViewsOK
<1>9. LeaderOK
  BY <1>2, <1>5 DEF LeaderOK, Passed
<1>10. HelpersOK
  BY <1>2, <1>5 DEF Init, HelpersOK, HelperOK
<1>11. LostOK /\ ArrivedOK /\ BarrierOK
  BY <1>3, <1>5, FS_EmptySet DEF Init, LostOK, ArrivedOK, BarrierOK, Passed
<1>12. LanesOK /\ FilledOK
  BY <1>5 DEF Init, LanesOK, FilledOK
<1>13. TracedOK /\ EndOK
  BY <1>5 DEF Init, TracedOK, EndOK, SyncPoints
<1> QED
  BY <1>4, <1>6, <1>7, <1>8, <1>9, <1>10, <1>11, <1>12, <1>13 DEF Inv

LEMMA StutterInv == Inv /\ UNCHANGED vars => Inv'
<1> SUFFICES ASSUME Inv, UNCHANGED vars PROVE Inv'
  OBVIOUS
<1> USE DEF vars, atomics, workers, leads, Now
<1>1. TypeOK' /\ StopOK' /\ MessagesOK' /\ ViewsOK'
  BY DEF Inv, TypeOK, StopOK, MessagesOK, ViewsOK
<1>2. LeaderOK' /\ HelpersOK'
  BY DEF Inv, LeaderOK, HelpersOK, HelperOK
<1>3. LostOK' /\ ArrivedOK' /\ BarrierOK'
  BY DEF Inv, LostOK, ArrivedOK, BarrierOK, Lost, Arrived, Refused
<1>4. LanesOK' /\ FilledOK'
  BY DEF Inv, LanesOK, FilledOK, Accounted
<1>5. TracedOK' /\ EndOK'
  BY DEF Inv, TracedOK, EndOK, Lost
<1> QED  BY <1>1, <1>2, <1>3, <1>4, <1>5 DEF Inv

LEMMA NextInv == Inv /\ [Next]_vars => Inv'
<1> SUFFICES ASSUME Inv, [Next]_vars PROVE Inv'
  OBVIOUS
<1> USE ConstantsOK
<1>1. CASE LeaderStep
  BY <1>1, SpawnHelperInv, SpawnRefusedInv, SpawnLoopEndsInv, ChargeRefusedInv,
     ClaimLaneInv, LanesExhaustedInv, FillSegmentInv, LoadArrivedInv,
     LoadLostInv, DecideInv, StoreStopInv, BumpGenerationInv, TraceReturnsInv,
     ResetCountersInv, PublishGenerationInv, JoinScopeInv DEF LeaderStep
<1>2. CASE \E h \in Helpers : HelperStep(h)
  BY <1>2, ClaimLaneInv, LanesExhaustedInv, FillSegmentInv, ArriveInv,
     WakeByStopInv, CheckStoppedInv, CheckContinuesInv, BailDropInv DEF HelperStep
<1>3. CASE \E h \in Helpers, i \in DOMAIN generation : WakeByGeneration(h, i)
  BY <1>3, WakeByGenerationInv
<1>4. CASE \E w \in Workers : FillPanics(w)
  BY <1>4, FillPanicsInv
<1>5. CASE TracePanics
  BY <1>5, TracePanicsInv
<1>6. CASE UNCHANGED vars
  BY <1>6, StutterInv
<1> QED  BY <1>1, <1>2, <1>3, <1>4, <1>5, <1>6 DEF Next

LEMMA InvHolds == Spec => []Inv
BY InitInv, NextInv, PTL DEF Spec

-----------------------------------------------------------------------------
(* Safety *)

\* Every variable of fill_pooled keeps its type; in particular nobody holds a
\* lane past the last one or leaves the nest behind its last step.
THEOREM Types == Spec => []TypeOK
<1>1. Inv => TypeOK
  BY DEF Inv
<1> QED  BY <1>1, InvHolds, PTL

\* No two threads ever compute the same lane or different steps at once, which
\* is what makes SharedInstance's aliased pointers sound.
THEOREM SegmentsDisjoint == Spec => []DisjointSegments
<1>1. Inv => DisjointSegments
  BY SameStep DEF Inv, LanesOK, DisjointSegments
<1> QED  BY <1>1, InvHolds, PTL

\* Whatever a segment reads of earlier steps happens before it through the
\* Acquire and Release operations of the barrier alone.
THEOREM EarlierStepsAcquired == Spec => []EarlierStepsHappenBefore
<1>1. Inv => EarlierStepsHappenBefore
  <2> SUFFICES ASSUME Inv, NEW w \in Workers, pc[w] = "fill"
               PROVE  Before(step[w]) \subseteq hb[w]
    BY DEF EarlierStepsHappenBefore
  <2>1. CASE w = Leader
    BY <2>1 DEF Inv, LeaderOK, Now
  <2>2. CASE w \in Helpers
    BY <2>2 DEF Inv, HelpersOK, HelperOK
  <2> QED  BY <2>1, <2>2, ConstantsOK
<1> QED  BY <1>1, InvHolds, PTL

LEMMA TraceQuiescent == Inv => TraceIsQuiescent
<1> SUFFICES ASSUME Inv, pc[Leader] = "trace"
             PROVE  /\ \A h \in Helpers : pc[h] \in {"refused", "park"}
                    /\ filled = Before(Now + 1)
                    /\ filled \subseteq hb[Leader]
  BY DEF TraceIsQuiescent, Now
<1>1. \A h \in Helpers : pc[h] \in {"refused", "park"}
  BY DEF Inv, BarrierOK, Passed, Refused, Arrived
<1>2. filled \subseteq Before(Now + 1)
  BY DEF Inv, FilledOK
<1>3. Before(Now + 1) \subseteq hb[Leader] /\ hb[Leader] \subseteq filled
  BY ConstantsOK DEF Inv, LeaderOK, Passed, ViewsOK
<1> QED  BY <1>1, <1>2, <1>3

\* The slice of the arena the trace callback is given is written by nobody, and
\* holds whole passes.
THEOREM TracesQuiescent == Spec => []TraceIsQuiescent
BY TraceQuiescent, InvHolds, PTL

LEMMA ReturnsFilled == Inv => ReturnsOnlyWhenFilled
<1> SUFFICES ASSUME Inv, pc[Leader] = "returned"
             PROVE  filled = Segment /\ hb[Leader] = Segment
  BY DEF ReturnsOnlyWhenFilled
<1>1. Now = Steps
  BY DEF Inv, EndOK
<1>2. Segment \subseteq hb[Leader]
  BY <1>1, BeforeStep, ConstantsOK DEF Inv, LeaderOK
<1> QED  BY <1>2, ConstantsOK DEF Inv, TypeOK, ViewsOK

\* A normal return means that the whole matrix has been computed and that the
\* caller may read it, however many helpers the OS refused.
THEOREM ReturnsFilledMatrix == Spec => []ReturnsOnlyWhenFilled
BY ReturnsFilled, InvHolds, PTL

-----------------------------------------------------------------------------
(* The pool implements FillSpec *)

LEMMA SameSegments ==
  /\ Promise!Segment = Segment
  /\ \A n : Promise!Before(n) = Before(n)
BY DEF Promise!Segment, Promise!Steps, Promise!SyncPoints, Promise!Before,
       Segment, Steps, SyncPoints, Before

\* fill_pooled cannot be over while a worker is inside fill_segment.
LEMMA FillsWhileRunning ==
  ASSUME Inv, NEW w \in Workers, pc[w] = "fill"
  PROVE  pc[Leader] \notin {"returned", "unwound"}
BY ConstantsOK DEF Inv, EndOK

LEMMA ReturnsFilledNext ==
  ASSUME Inv', pc'[Leader] = "returned"
  PROVE  filled' = Segment
<1>1. Now' = Steps
  BY DEF Inv, EndOK
<1>2. Segment \subseteq hb'[Leader]
  BY <1>1, BeforeStep, ConstantsOK DEF Inv, LeaderOK
<1> QED  BY <1>2, ConstantsOK DEF Inv, TypeOK, ViewsOK

LEMMA FillRefines ==
  ASSUME Inv, NEW w \in Workers, FillSegment(w)
  PROVE  Promise!Next
<1> USE ConstantsOK
<1>1. step[w] = Now /\ Now \in 0 .. Steps - 1 /\ lane[w] \in 0 .. Lanes - 1
  BY SameStep DEF Inv, TypeOK, FillSegment
<1>2. Held(w) = <<Now, lane[w]>> /\ Held(w) \in Segment
  BY <1>1 DEF Held, Segment
<1>3. Held(w) \notin filled
  <2>1. pc[Leader] # "publish"
    BY NobodyFills DEF FillSegment, Passed
  <2> QED  BY <1>1, <1>2, <2>1 DEF Inv, FilledOK, FillSegment
<1>4. Before(Now) \subseteq filled
  BY DEF Inv, LeaderOK, ViewsOK
<1>5. pc[Leader] \notin {"returned", "unwound"} /\ pc'[Leader] \notin {"returned", "unwound"}
  <2>1. pc[w] = "fill" /\ pc'[w] = "drain" /\ (w # Leader => pc'[Leader] = pc[Leader])
    BY DEF Inv, TypeOK, FillSegment
  <2>2. w # Leader => pc[Leader] \notin {"returned", "unwound"}
    BY FillsWhileRunning DEF FillSegment
  <2> QED  BY <2>1, <2>2
<1>6. Outcome = "running" /\ Outcome' = "running"
  BY <1>5 DEF Outcome, Over
<1>7. filled' = filled \cup {Held(w)} /\ traced' = traced
  BY DEF FillSegment, leads
<1>8. Held(w)[1] = Now
  BY <1>2
<1>9. Promise!Fill(Held(w))
  BY <1>3, <1>4, <1>6, <1>7, <1>8, SameSegments DEF Promise!Fill
<1> QED  BY <1>2, <1>9, SameSegments DEF Promise!Next

LEMMA TraceRefines ==
  ASSUME Inv, TraceReturns
  PROVE  Promise!Next
<1> USE ConstantsOK
<1>1. pc[Leader] = "trace" /\ pc'[Leader] = "reset" /\ traced' = traced + 1
      /\ filled' = filled
  BY DEF Inv, TypeOK, TraceReturns
<1>2. Now \in Nat /\ traced \in Nat /\ Now < Steps
  BY <1>1 DEF Inv, TypeOK, LeaderOK, Running, Now
<1>3. Now + 1 = 4 * (traced + 1)
  <2>1. Now % 4 = 3 /\ 4 * traced <= Now /\ Now < 4 * traced + 4
    BY <1>1 DEF Inv, TracedOK, Running, SyncPoints
  <2> QED  BY <1>2, <2>1
<1>4. traced < Passes
  BY <1>2, <1>3
<1>5. filled = Before(SyncPoints * (traced + 1))
  <2>1. filled = Before(Now + 1)
    BY <1>1, TraceQuiescent DEF TraceIsQuiescent, Now
  <2> QED  BY <1>3, <2>1 DEF SyncPoints
<1>6. Outcome = "running" /\ Outcome' = "running"
  BY <1>1 DEF Outcome, Over
<1>7. Promise!Trace
  BY <1>1, <1>4, <1>5, <1>6, SameSegments DEF Promise!Trace, Promise!SyncPoints, SyncPoints
<1> QED  BY <1>7 DEF Promise!Next

LEMMA JoinRefines ==
  ASSUME Inv, JoinScope
  PROVE  Promise!Next
<1> USE ConstantsOK
<1>1. pc[Leader] = "join" /\ UNCHANGED <<filled, traced>>
  BY DEF JoinScope, leads
<1>2. Outcome = "running" /\ Outcome' = pc'[Leader]
  BY <1>1 DEF Inv, TypeOK, JoinScope, Outcome, Over
<1>3. CASE pc'[Leader] = "unwound"
  BY <1>1, <1>2, <1>3 DEF Promise!Next, Promise!Unwind
<1>4. CASE pc'[Leader] = "returned"
  <2>1. Inv' /\ UNCHANGED step
    BY JoinScopeInv DEF JoinScope
  <2>2. filled' = Segment
    BY <1>4, <2>1, ReturnsFilledNext
  <2>3. traced' = Passes
    BY <1>4, <2>1 DEF Inv, EndOK, TracedOK
  <2> QED  BY <1>1, <1>2, <1>4, <2>2, <2>3, SameSegments DEF Promise!Next, Promise!Return
<1> QED  BY <1>3, <1>4 DEF Inv, TypeOK, JoinScope

\* Every other action is invisible to the promise.
LEMMA OthersStutter ==
  ASSUME Inv, [Next]_vars,
         \A w \in Workers : ~FillSegment(w), ~TraceReturns, ~JoinScope
  PROVE  UNCHANGED <<filled, traced, Outcome>>
<1> USE ConstantsOK
<1> USE DEF vars, atomics, workers, leads
<1>1. UNCHANGED <<filled, traced>>
  BY DEF Next, LeaderStep, HelperStep, ClaimLane, LanesExhausted, Arrive,
         WakeByGeneration, WakeByStop, CheckStopped, CheckContinues, BailDrop,
         SpawnHelper, SpawnRefused, SpawnLoopEnds, ChargeRefused, LoadArrived,
         LoadLost, Decide, StoreStop, BumpGeneration, ResetCounters,
         PublishGeneration, FillPanics, TracePanics
<1>2. \/ pc'[Leader] = pc[Leader]
      \/ /\ pc[Leader] \notin {"returned", "unwound"}
         /\ pc'[Leader] \notin {"returned", "unwound"}
  <2>1. CASE LeaderStep
    BY <2>1 DEF Inv, TypeOK, LeaderStep, ClaimLane, LanesExhausted, SpawnHelper,
                SpawnRefused, SpawnLoopEnds, ChargeRefused, LoadArrived, LoadLost,
                Decide, StoreStop, BumpGeneration, ResetCounters, PublishGeneration
  <2>2. CASE \E h \in Helpers : HelperStep(h)
    BY <2>2 DEF Inv, TypeOK, HelperStep, ClaimLane, LanesExhausted, Arrive,
                WakeByStop, CheckStopped, CheckContinues, BailDrop
  <2>3. CASE \E h \in Helpers, i \in DOMAIN generation : WakeByGeneration(h, i)
    BY <2>3 DEF Inv, TypeOK, WakeByGeneration
  <2>4. CASE (\E w \in Workers : FillPanics(w)) \/ TracePanics
    BY <2>4 DEF Inv, TypeOK, FillPanics, TracePanics
  <2>5. CASE UNCHANGED vars
    BY <2>5
  <2> QED  BY <2>1, <2>2, <2>3, <2>4, <2>5 DEF Next
<1> QED  BY <1>1, <1>2 DEF Outcome, Over

\* Whatever the schedule, the refusals, the panics and the age of what the
\* helpers read, fill_pooled computes each segment once, never before the
\* segments of the earlier steps, and returns only when all is computed.
THEOREM PoolImplementsPromise == Spec => ImplementsFillSpec
<1>1. Init => Promise!Init
  BY ConstantsOK DEF Init, Promise!Init, Outcome, Over
<1>2. Inv /\ [Next]_vars => [Promise!Next]_(Promise!specVars)
  <2> SUFFICES ASSUME Inv, [Next]_vars PROVE [Promise!Next]_(Promise!specVars)
    OBVIOUS
  <2>1. CASE \E w \in Workers : FillSegment(w)
    BY <2>1, FillRefines
  <2>2. CASE TraceReturns
    BY <2>2, TraceRefines
  <2>3. CASE JoinScope
    BY <2>3, JoinRefines
  <2>4. CASE /\ \A w \in Workers : ~FillSegment(w)
             /\ ~TraceReturns
             /\ ~JoinScope
    BY <2>4, OthersStutter DEF Promise!specVars
  <2> QED  BY <2>1, <2>2, <2>3, <2>4
<1> QED  BY <1>1, <1>2, InvHolds, PTL DEF Spec, ImplementsFillSpec, Promise!Spec

=============================================================================
