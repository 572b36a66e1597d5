--------------------------- MODULE Memory_proofs ---------------------------
(***************************************************************************)
(* Memory, for every size of arena, every wipe threshold, every number of  *)
(* threads and every answer of the operating system.                       *)
(*                                                                         *)
(* Of Workspace and Hasher.  The invariants of the type-level comment on   *)
(* Arena are inductive only together: a wipe of the visible blocks makes   *)
(* the arena all zero because the tail is zero, and Drop may skip the wipe *)
(* because a flag that is set is right.                                    *)
(*                                                                         *)
(* Of what lies beneath.  A striped wipe covers its region with any number *)
(* of workers of which any may be refused (StripeWipe).  No trim and no    *)
(* unmap takes memory from an arena, and as long as the kernel can cut     *)
(* holes no slack is left (OsMemory).  The salt that is hashed was written *)
(* by the system throughout (OsRandom).                                    *)
(***************************************************************************)
EXTENDS Hasher, StripeWipe, OsMemory, OsRandom, TLAPS

\* What is true of one arena; wipe says whether the build has zeroize-memory.
Sound(a, wipe) ==
  /\ a \in Arena
  /\ a.len <= a.cap
  /\ a.dirty \subseteq 0 .. a.cap - 1
  /\ a.cap > 0 => a.len > 0
  /\ a.zeroed => a.dirty = {}
  /\ wipe => a.dirty \subseteq Visible(a)

FlagsOK ==
  /\ zeroizeMemory \in BOOLEAN
  /\ unwinding \in BOOLEAN
  /\ freedDirty \in BOOLEAN
  /\ spawned \in BOOLEAN

LoansOK == loan \in [Loans -> Arena] /\ \A k \in Loans : Sound(loan[k], zeroizeMemory)

ParkedOK == Sound(parked, zeroizeMemory) /\ (zeroizeMemory => parked.dirty = {})

FreedOK == zeroizeMemory => ~freedDirty

WorkspaceInv == FlagsOK /\ LoansOK /\ ParkedOK /\ FreedOK

-----------------------------------------------------------------------------
\* A fresh arena, or none, is sound: its memory is all zero.
LEMMA NewArenaSound ==
  ASSUME NEW n \in 0 .. MaxBlocks, NEW wipe
  PROVE  Sound(NewArena(n), wipe) /\ NewArena(n).dirty = {}
BY WorkspaceAssumption DEF Sound, NewArena, Arena, Visible

LEMMA NoArenaSound ==
  ASSUME NEW wipe
  PROVE  Sound(NoArena, wipe) /\ NoArena.dirty = {}
BY NewArenaSound, WorkspaceAssumption DEF NoArena

\* The wipe of the visible blocks leaves a sound arena, all zero with the feature.
LEMMA WipeVisibleSound ==
  ASSUME NEW a, Sound(a, zeroizeMemory)
  PROVE  /\ Sound(WipeVisible(a), zeroizeMemory)
         /\ zeroizeMemory => WipeVisible(a).dirty = {}
<1>1. CASE zeroizeMemory
  <2>1. a.dirty \ Visible(a) = {}
    BY <1>1 DEF Sound
  <2>2. WipeVisible(a) = [a EXCEPT !.dirty = {}, !.zeroed = TRUE]
    BY <1>1, <2>1 DEF WipeVisible, Sound, Arena
  <2> QED  BY <2>2, WorkspaceAssumption DEF Sound, Arena, Visible
<1>2. CASE ~zeroizeMemory
  BY <1>2 DEF WipeVisible
<1> QED  BY <1>1, <1>2

\* A sound arena is freed all zero with the feature.
LEMMA DropSound ==
  ASSUME NEW a, Sound(a, zeroizeMemory), zeroizeMemory
  PROVE  ~FreesDirty(a)
BY WipeVisibleSound DEF FreesDirty, AfterDrop, Sound

\* Replacing the arena of one loan by a sound one.
LEMMA LoanReplaced ==
  ASSUME LoansOK, NEW k \in Loans, NEW a, Sound(a, zeroizeMemory),
         loan' = [loan EXCEPT ![k] = a], zeroizeMemory' = zeroizeMemory
  PROVE  LoansOK'
BY DEF LoansOK, Sound

\* Freeing the parked arena keeps the memory that was freed clean.
LEMMA FreeParkedClean ==
  ASSUME WorkspaceInv, FreeParked
  PROVE  FlagsOK' /\ FreedOK'
BY DropSound DEF WorkspaceInv, ParkedOK, FlagsOK, FreedOK, FreeParked

-----------------------------------------------------------------------------
\* The initial state, with nothing allocated, satisfies the invariant.
LEMMA WorkspaceInitInv == ASSUME Init PROVE WorkspaceInv
<1>1. NoArena \in Arena
  BY NoArenaSound DEF Sound
<1> QED  BY <1>1, NoArenaSound
         DEF Init, WorkspaceInv, FlagsOK, LoansOK, ParkedOK, FreedOK

\* The calls that can change what is parked, before a loan is made.
LEMMA GrowthInv ==
  ASSUME WorkspaceInv, NEW n \in Request, ReserveGrows(n) \/ GrowthFails(n)
  PROVE  WorkspaceInv'
<1>1. Sound(parked', zeroizeMemory) /\ parked'.dirty = {}
  <2>1. CASE ReserveGrows(n)
    <3>1. n \in 0 .. MaxBlocks
      BY <2>1, WorkspaceAssumption DEF ReserveGrows, Grows, ValidLayout
    <3> QED  BY <2>1, <3>1, NewArenaSound DEF ReserveGrows
  <2>2. CASE GrowthFails(n)
    BY <2>2, NoArenaSound DEF GrowthFails
  <2> QED  BY <2>1, <2>2
<1>2. FreeParked /\ UNCHANGED loan
  BY DEF ReserveGrows, GrowthFails
<1>3. FlagsOK' /\ FreedOK'
  BY <1>2, FreeParkedClean
<1>4. LoansOK' /\ ParkedOK'
  BY <1>1, <1>2 DEF WorkspaceInv, LoansOK, ParkedOK, FreeParked
<1> QED  BY <1>3, <1>4 DEF WorkspaceInv

LEMMA AcquireInv ==
  ASSUME WorkspaceInv, NEW n \in Request, NEW k \in Loans,
         AcquireParked(n, k) \/ AcquireGrows(n, k)
  PROVE  WorkspaceInv'
<1>1. CASE AcquireParked(n, k)
  <2> DEFINE a == [parked EXCEPT !.len = n]
  <2>1. Sound(a, zeroizeMemory)
    BY <1>1, WorkspaceAssumption
       DEF AcquireParked, WorkspaceInv, ParkedOK, Sound, Arena, Visible, Request
  <2>2. LoansOK'
    BY <1>1, <2>1, LoanReplaced DEF AcquireParked, WorkspaceInv
  <2> QED  BY <1>1, <2>2, NoArenaSound
           DEF AcquireParked, WorkspaceInv, FlagsOK, ParkedOK, FreedOK
<1>2. CASE AcquireGrows(n, k)
  <2>1. n \in 0 .. MaxBlocks
    BY <1>2, WorkspaceAssumption DEF AcquireGrows, Grows, ValidLayout
  <2>2. LoansOK'
    BY <1>2, <2>1, NewArenaSound, LoanReplaced
       DEF AcquireGrows, FreeParked, WorkspaceInv
  <2>3. FlagsOK' /\ FreedOK'
    BY <1>2, FreeParkedClean DEF AcquireGrows
  <2> QED  BY <1>2, <2>2, <2>3, NoArenaSound
           DEF AcquireGrows, FreeParked, WorkspaceInv, ParkedOK
<1> QED  BY <1>1, <1>2

\* What a client does with an arena on loan.
LEMMA UseInv ==
  ASSUME WorkspaceInv, NEW k \in Loans, NEW a, Sound(a, zeroizeMemory),
         loan' = [loan EXCEPT ![k] = a],
         UNCHANGED <<zeroizeMemory, parked, unwinding, freedDirty, spawned>>
  PROVE  WorkspaceInv'
<1>1. LoansOK'
  BY LoanReplaced DEF WorkspaceInv
<1> QED  BY <1>1 DEF WorkspaceInv, FlagsOK, ParkedOK, FreedOK

LEMMA ReleaseInv ==
  ASSUME WorkspaceInv, NEW k \in Loans, Release(k)
  PROVE  WorkspaceInv'
<1> DEFINE back == WipeVisible(loan[k])
<1>1. Sound(back, zeroizeMemory) /\ (zeroizeMemory => back.dirty = {})
  BY WipeVisibleSound DEF WorkspaceInv, LoansOK
<1>2. LoansOK'
  BY NoArenaSound, LoanReplaced DEF Release, WorkspaceInv
<1>3. parked' = parked \/ parked' = back
  BY DEF Release
<1>4. ParkedOK'
  BY <1>1, <1>3 DEF Release, WorkspaceInv, ParkedOK
<1>5. zeroizeMemory => ~FreesDirty(back) /\ ~FreesDirty(parked)
  BY <1>1, DropSound DEF WorkspaceInv, ParkedOK
<1>6. FlagsOK' /\ FreedOK'
  BY <1>5 DEF Release, WorkspaceInv, FlagsOK, FreedOK
<1> QED  BY <1>2, <1>4, <1>6 DEF WorkspaceInv

\* Every call of the interface, and every panic, preserves the invariant.
LEMMA WorkspaceNextInv ==
  ASSUME WorkspaceInv, [WorkspaceNext]_wsVars
  PROVE  WorkspaceInv'
<1>1. CASE UNCHANGED wsVars
  BY <1>1 DEF wsVars, WorkspaceInv, FlagsOK, LoansOK, ParkedOK, FreedOK
<1>2. ASSUME NEW n \in Request, ReserveKeeps(n) PROVE WorkspaceInv'
  BY <1>1, <1>2 DEF ReserveKeeps
<1>3. ASSUME NEW n \in Request, NEW k \in Loans,
             AcquireParked(n, k) \/ AcquireGrows(n, k)
      PROVE  WorkspaceInv'
  BY <1>3, AcquireInv
<1>4. ASSUME NEW n \in Request, AllocateOwned(n) PROVE WorkspaceInv'
  <2>1. n \in 0 .. MaxBlocks
    BY <1>4, WorkspaceAssumption DEF AllocateOwned, ValidLayout
  <2> QED  BY <1>4, <2>1, NewArenaSound, UseInv DEF AllocateOwned, Loans
<1>5. ASSUME NEW k \in Loans, NEW written \in SUBSET (0 .. MaxBlocks - 1),
             Write(k, written)
      PROVE  WorkspaceInv'
  <2> DEFINE a == [loan[k] EXCEPT !.dirty = @ \cup written, !.zeroed = FALSE]
  <2>1. Sound(loan[k], zeroizeMemory) /\ loan \in [Loans -> Arena]
    BY DEF WorkspaceInv, LoansOK
  <2> DEFINE b == loan[k]
  <2>2. b \in Arena /\ written \subseteq 0 .. b.len - 1
    BY <1>5, <2>1 DEF Write, Sound, Visible
  <2>3. /\ a.cap = b.cap /\ a.len = b.len /\ a.workers = b.workers
        /\ a.dirty = b.dirty \cup written /\ a.zeroed = FALSE
    BY <2>2 DEF Arena
  <2>4. b.len <= b.cap /\ b.cap \in 0 .. MaxBlocks /\ b.len \in 0 .. MaxBlocks
    BY <2>1 DEF Sound, Arena
  <2>5. a.dirty \subseteq 0 .. a.cap - 1
    BY <2>1, <2>2, <2>3, <2>4, WorkspaceAssumption DEF Sound
  <2>6. a \in Arena
    BY <2>2 DEF Arena
  <2>7. Sound(a, zeroizeMemory)
    BY <2>1, <2>2, <2>3, <2>5, <2>6 DEF Sound, Visible
  <2>8. loan' = [loan EXCEPT ![k] = a]
    BY <1>5, <2>1 DEF Write, Arena
  <2> QED  BY <1>5, <2>7, <2>8, UseInv DEF Write
<1>6. ASSUME NEW k \in Loans, EnsureZeroed(k) PROVE WorkspaceInv'
  <2> DEFINE a == [loan[k] EXCEPT !.dirty = {}, !.zeroed = TRUE]
  <2>1. Sound(loan[k], zeroizeMemory) /\ loan \in [Loans -> Arena]
    BY DEF WorkspaceInv, LoansOK
  <2>2. Sound(a, zeroizeMemory)
    BY <2>1 DEF Sound, Arena, Visible
  <2>3. loan' = [loan EXCEPT ![k] = a]
    BY <1>6, <2>1 DEF EnsureZeroed, Arena
  <2> QED  BY <1>6, <2>2, <2>3, UseInv DEF EnsureZeroed
<1>7. ASSUME NEW k \in Loans, NEW t \in ThreadCounts, SetWorkers(k, t)
      PROVE  WorkspaceInv'
  <2> DEFINE a == [loan[k] EXCEPT !.workers = t]
  <2>1. Sound(loan[k], zeroizeMemory) /\ loan \in [Loans -> Arena]
    BY DEF WorkspaceInv, LoansOK
  <2>2. Sound(a, zeroizeMemory)
    BY <2>1 DEF Sound, Arena, Visible
  <2>3. loan' = [loan EXCEPT ![k] = a]
    BY <1>7, <2>1 DEF SetWorkers, Arena
  <2> QED  BY <1>7, <2>2, <2>3, UseInv DEF SetWorkers
<1>8. CASE DropGuard \/ ReleaseOwned
  BY <1>8, ReleaseInv DEF DropGuard, ReleaseOwned, Loans
<1>9. CASE DropOwned
  <2>1. LoansOK'
    BY <1>9, NoArenaSound, LoanReplaced DEF DropOwned, WorkspaceInv, Loans
  <2>2. zeroizeMemory => ~FreesDirty(loan["owned"])
    BY DropSound DEF WorkspaceInv, LoansOK, Loans
  <2> QED  BY <1>9, <2>1, <2>2
           DEF DropOwned, WorkspaceInv, FlagsOK, ParkedOK, FreedOK
<1>10. CASE ForgetGuard
  BY <1>10, NoArenaSound, UseInv DEF ForgetGuard, Loans
<1>11. CASE Clear
  <2>1. FlagsOK' /\ FreedOK'
    BY <1>11, FreeParkedClean DEF Clear
  <2> QED  BY <1>11, <2>1, NoArenaSound
           DEF Clear, FreeParked, WorkspaceInv, LoansOK, ParkedOK
<1>12. CASE Panic \/ Catch
  <2>1. UNCHANGED <<zeroizeMemory, parked, loan, freedDirty, spawned>>
        /\ unwinding' \in BOOLEAN
    BY <1>12 DEF Panic, Catch
  <2> QED  BY <2>1 DEF WorkspaceInv, FlagsOK, LoansOK, ParkedOK, FreedOK
<1> QED
  BY <1>1, <1>2, <1>3, <1>4, <1>5, <1>6, <1>7, <1>8, <1>9, <1>10, <1>11, <1>12,
     GrowthInv DEF WorkspaceNext

LEMMA WorkspaceInvHolds == WorkspaceSpec => []WorkspaceInv
BY WorkspaceInitInv, WorkspaceNextInv, PTL DEF WorkspaceSpec

-----------------------------------------------------------------------------
\* The window of every arena lies inside it, for every size of arena.
THEOREM WorkspaceTypes == WorkspaceSpec => []WorkspaceTypeOK
<1>1. WorkspaceInv => WorkspaceTypeOK
  BY DEF WorkspaceInv, FlagsOK, LoansOK, ParkedOK, Sound, WorkspaceTypeOK, Live
<1> QED  BY <1>1, WorkspaceInvHolds, PTL

\* Invariant 3 of Arena, with the feature and without it: is_known_zeroed never
\* lies, so that Drop never skips a wipe that is needed.
THEOREM KnownZeroed == WorkspaceSpec => []KnownZeroedIsZero
<1>1. WorkspaceInv => KnownZeroedIsZero
  BY DEF WorkspaceInv, LoansOK, ParkedOK, Sound, KnownZeroedIsZero, Live
<1> QED  BY <1>1, WorkspaceInvHolds, PTL

\* Invariant 2 of Arena: wiping the visible blocks is enough.
THEOREM TailZero == WorkspaceSpec => []TailIsZero
<1>1. WorkspaceInv => TailIsZero
  BY DEF WorkspaceInv, LoansOK, ParkedOK, Sound, TailIsZero, Live
<1> QED  BY <1>1, WorkspaceInvHolds, PTL

\* No secret is freed: growth, release, drop, clear and unwind all wipe first.
THEOREM NothingFreed == WorkspaceSpec => []NothingFreedDirty
<1>1. WorkspaceInv => NothingFreedDirty
  BY DEF WorkspaceInv, FreedOK, NothingFreedDirty
<1> QED  BY <1>1, WorkspaceInvHolds, PTL

-----------------------------------------------------------------------------
(* What a step may not do *)

HandedOut(k) == loan[k] = NoArena /\ loan'[k] # NoArena

\* Only the calls that make a loan hand an arena out.
LEMMA HandsOut ==
  ASSUME WorkspaceInv, [WorkspaceNext]_wsVars, NEW k \in Loans, HandedOut(k)
  PROVE  \/ \E n \in Request : AcquireParked(n, k) \/ AcquireGrows(n, k)
         \/ k = "owned" /\ \E n \in Request : AllocateOwned(n)
<1>1. loan \in [Loans -> Arena]
  BY DEF WorkspaceInv, LoansOK
<1>2. ASSUME UNCHANGED loan PROVE FALSE
  BY <1>2 DEF HandedOut
<1>3. ASSUME NEW j \in Loans, NEW a, loan' = [loan EXCEPT ![j] = a],
             loan[j] # NoArena \/ a = NoArena
      PROVE  FALSE
  BY <1>1, <1>3 DEF HandedOut
<1>4. ASSUME NEW j \in Loans, NEW a, loan' = [loan EXCEPT ![j] = a], j # k
      PROVE  FALSE
  BY <1>1, <1>4 DEF HandedOut
<1>5. CASE UNCHANGED wsVars
  BY <1>2, <1>5 DEF wsVars
<1>6. CASE \E n \in Request : ReserveKeeps(n) \/ ReserveGrows(n) \/ GrowthFails(n)
  BY <1>2, <1>6 DEF ReserveKeeps, ReserveGrows, GrowthFails, wsVars
<1>7. CASE \E n \in Request, j \in Loans : AcquireParked(n, j) \/ AcquireGrows(n, j)
  BY <1>4, <1>7 DEF AcquireParked, AcquireGrows
<1>8. CASE \E n \in Request : AllocateOwned(n)
  BY <1>4, <1>8 DEF AllocateOwned, Loans
<1>9. ASSUME NEW j \in Loans, NEW written \in SUBSET (0 .. MaxBlocks - 1),
             Write(j, written)
      PROVE  FALSE
  BY <1>3, <1>9 DEF Write, Holds
<1>10. ASSUME NEW j \in Loans, EnsureZeroed(j) PROVE FALSE
  BY <1>3, <1>10 DEF EnsureZeroed, Holds
<1>11. ASSUME NEW j \in Loans, NEW t \in ThreadCounts, SetWorkers(j, t) PROVE FALSE
  BY <1>3, <1>11 DEF SetWorkers, Holds
<1>12. CASE DropGuard \/ ReleaseOwned \/ DropOwned \/ ForgetGuard
  BY <1>3, <1>12 DEF DropGuard, ReleaseOwned, Release, DropOwned, ForgetGuard, Loans
<1>13. CASE Clear \/ Panic \/ Catch
  BY <1>2, <1>13 DEF Clear, Panic, Catch
<1> QED
  BY <1>5, <1>6, <1>7, <1>8, <1>9, <1>10, <1>11, <1>12, <1>13 DEF WorkspaceNext

\* With zeroize-memory no borrower sees what an earlier one left: whatever acquire,
\* acquire_owned and Arena::new hand out is zero, whichever way it was released.
THEOREM AcquireZero == WorkspaceSpec => AcquireReturnsZero
<1> DEFINE HandsZero ==
      \A k \in Loans :
        zeroizeMemory /\ loan[k] = NoArena /\ loan'[k] # NoArena => loan'[k].dirty = {}
<1>1. WorkspaceInv /\ [WorkspaceNext]_wsVars => [HandsZero]_wsVars
  <2> SUFFICES ASSUME WorkspaceInv, [WorkspaceNext]_wsVars, NEW k \in Loans,
                      zeroizeMemory, HandedOut(k)
               PROVE  loan'[k].dirty = {}
    BY DEF HandedOut
  <2>1. parked \in Arena /\ parked.dirty = {} /\ loan \in [Loans -> Arena]
    BY DEF WorkspaceInv, ParkedOK, LoansOK, Sound
  <2>2. ASSUME NEW n, loan' = [loan EXCEPT ![k] = NewArena(n)]
        PROVE  loan'[k].dirty = {}
    BY <2>1, <2>2 DEF NewArena
  <2>3. CASE \E n \in Request : AcquireParked(n, k)
    BY <2>1, <2>3 DEF AcquireParked, Arena
  <2>4. CASE \E n \in Request : AcquireGrows(n, k)
    BY <2>2, <2>4 DEF AcquireGrows
  <2>5. CASE k = "owned" /\ \E n \in Request : AllocateOwned(n)
    BY <2>2, <2>5 DEF AllocateOwned
  <2> QED  BY <2>3, <2>4, <2>5, HandsOut
<1> QED  BY <1>1, WorkspaceInvHolds, PTL DEF WorkspaceSpec, AcquireReturnsZero

\* Largest, of any parked arena and any loans: it bounds every capacity and is one
\* of them.
LargestOf(live, p) ==
  IF \E a \in live : a.cap > p.cap
  THEN (CHOOSE a \in live : \A b \in live : b.cap <= a.cap).cap
  ELSE p.cap

LEMMA LargestIs ==
  ASSUME NEW p \in Arena, NEW l \in [Loans -> Arena],
         NEW live, live = {p} \cup {l[k] : k \in Loans}
  PROVE  /\ \A a \in live : a.cap <= LargestOf(live, p)
         /\ \E a \in live : a.cap = LargestOf(live, p)
         /\ LargestOf(live, p) \in Nat
<1> DEFINE g == l["guard"]
           o == l["owned"]
           IsMost(a) == a \in live /\ \A b \in live : b.cap <= a.cap
<1>1. live = {p, g, o}
  BY DEF Loans
<1>2. p.cap \in Nat /\ g.cap \in Nat /\ o.cap \in Nat
  <2>1. g \in Arena /\ o \in Arena
    BY DEF Loans
  <2> QED  BY <2>1, WorkspaceAssumption DEF Arena
<1> HIDE DEF g, o
<1>3. \E a : IsMost(a)
  <2>1. IsMost(p) \/ IsMost(g) \/ IsMost(o)
    BY <1>1, <1>2
  <2> QED  BY <2>1
<1> DEFINE m == CHOOSE a \in live : \A b \in live : b.cap <= a.cap
<1>4. m \in live /\ \A b \in live : b.cap <= m.cap
  BY <1>3
<1>5. \A a \in live : a.cap \in Nat
  BY <1>1, <1>2
<1>6. LargestOf(live, p) = IF \E a \in live : a.cap > p.cap THEN m.cap ELSE p.cap
  BY DEF LargestOf
<1> HIDE DEF m
<1>7. CASE \E a \in live : a.cap > p.cap
  <2>1. LargestOf(live, p) = m.cap
    BY <1>6, <1>7
  <2> QED  BY <1>4, <1>5, <2>1
<1>8. CASE ~ \E a \in live : a.cap > p.cap
  <2>1. LargestOf(live, p) = p.cap
    BY <1>6, <1>8
  <2>2. \A a \in live : a.cap <= p.cap
    BY <1>2, <1>5, <1>8
  <2>3. p \in live
    BY <1>1
  <2> QED  BY <1>2, <2>1, <2>2, <2>3
<1> QED  BY <1>7, <1>8

\* A step after which every arena has its match does not make the largest smaller.
LEMMA NoneSmaller ==
  ASSUME WorkspaceInv, WorkspaceInv', \A a \in Live : \E b \in Live' : a.cap <= b.cap
  PROVE  ~(Largest' < Largest)
<1>1. /\ parked \in Arena /\ loan \in [Loans -> Arena]
      /\ parked' \in Arena /\ loan' \in [Loans -> Arena]
  BY DEF WorkspaceInv, ParkedOK, LoansOK, Sound
<1>2. Largest = LargestOf(Live, parked) /\ Largest' = LargestOf(Live', parked')
  BY DEF Largest, LargestOf
<1>3. /\ Live = {parked} \cup {loan[k] : k \in Loans}
      /\ Live' = {parked'} \cup {loan'[k] : k \in Loans}
  BY DEF Live
<1>4. /\ \E a \in Live : a.cap = Largest
      /\ Largest \in Nat
  BY <1>1, <1>2, <1>3, LargestIs
<1>5. /\ \A b \in Live' : b.cap <= Largest'
      /\ Largest' \in Nat
  BY <1>1, <1>2, <1>3, LargestIs
<1>6. \A b \in Live' : b.cap \in Nat
  BY <1>1, <1>3, WorkspaceAssumption DEF Arena
<1> QED  BY <1>4, <1>5, <1>6

\* Every arena there is before a step has one as large after it.
ParkedMatched ==
  parked.cap <= parked'.cap \/ \E k \in Loans : parked.cap <= loan'[k].cap

LoansMatched ==
  \A k \in Loans : loan[k].cap <= loan'[k].cap \/ loan[k].cap <= parked'.cap

LEMMA Matched ==
  ASSUME ParkedMatched, LoansMatched
  PROVE  \A a \in Live : \E b \in Live' : a.cap <= b.cap
<1>1. parked' \in Live' /\ \A k \in Loans : loan'[k] \in Live'
  BY DEF Live
<1>2. \A a \in Live : a = parked \/ \E k \in Loans : a = loan[k]
  BY DEF Live
<1> QED  BY <1>1, <1>2 DEF ParkedMatched, LoansMatched

\* What Release keeps is at least as large as what came back and what was parked.
LEMMA ReleaseKeepsLarger ==
  ASSUME WorkspaceInv, NEW k \in Loans, Release(k)
  PROVE  /\ parked.cap <= parked'.cap
         /\ loan[k].cap <= parked'.cap
         /\ loan' = [loan EXCEPT ![k] = NoArena]
<1>1. parked \in Arena /\ loan[k] \in Arena
  BY DEF WorkspaceInv, ParkedOK, LoansOK, Sound
<1>2. WipeVisible(loan[k]).cap = loan[k].cap
  BY <1>1 DEF WipeVisible, Arena
<1>3. parked.cap \in Nat /\ loan[k].cap \in Nat
  BY <1>1, WorkspaceAssumption DEF Arena
<1> QED  BY <1>2, <1>3 DEF Release

OnPurpose ==
  \/ Clear \/ DropOwned \/ ForgetGuard
  \/ \E n \in 1 .. MaxBlocks : n > parked.cap /\ GrowthFails(n)

LEMMA ArenasMatched ==
  ASSUME WorkspaceInv, [WorkspaceNext]_wsVars, ~OnPurpose
  PROVE  ParkedMatched /\ LoansMatched
<1>1. parked \in Arena /\ loan \in [Loans -> Arena]
  BY DEF WorkspaceInv, ParkedOK, LoansOK, Sound
<1>2. parked.cap \in Nat /\ \A k \in Loans : loan[k].cap \in Nat
  BY <1>1, WorkspaceAssumption DEF Arena
<1>3. NoArena.cap = 0 /\ \A n : NewArena(n).cap = n
  BY DEF NewArena, NoArena
<1>4. ASSUME UNCHANGED <<parked, loan>> PROVE ParkedMatched /\ LoansMatched
  BY <1>2, <1>4 DEF ParkedMatched, LoansMatched
\* One loan is replaced by an arena as large, which may be the parked one.
<1>5. ASSUME NEW j \in Loans, \A k \in Loans : k # j => loan'[k] = loan[k],
             loan[j].cap <= loan'[j].cap,
             parked' = parked \/ parked.cap <= loan'[j].cap
      PROVE  ParkedMatched /\ LoansMatched
  BY <1>2, <1>5 DEF ParkedMatched, LoansMatched
<1>6. CASE UNCHANGED wsVars
  BY <1>4, <1>6 DEF wsVars
<1>7. ASSUME NEW n \in Request, ReserveKeeps(n) \/ ReserveGrows(n) \/ GrowthFails(n)
      PROVE  ParkedMatched /\ LoansMatched
  <2>1. CASE ReserveKeeps(n)
    BY <1>4, <2>1 DEF ReserveKeeps, wsVars
  <2>2. CASE ReserveGrows(n)
    <3>1. parked'.cap = n /\ parked.cap < n /\ loan' = loan /\ n \in Nat
      BY <1>3, <2>2 DEF ReserveGrows, Grows, ValidLayout
    <3> QED  BY <1>2, <3>1 DEF ParkedMatched, LoansMatched
  <2>3. CASE GrowthFails(n)
    BY <1>2, <2>3 DEF GrowthFails, Grows, ValidLayout, OnPurpose
  <2> QED  BY <1>7, <2>1, <2>2, <2>3
<1>8. ASSUME NEW n \in Request, NEW j \in Loans, AcquireParked(n, j)
      PROVE  ParkedMatched /\ LoansMatched
  <2>1. loan' = [loan EXCEPT ![j] = [parked EXCEPT !.len = n]] /\ loan[j] = NoArena
    BY <1>8 DEF AcquireParked
  <2>2. /\ \A k \in Loans : k # j => loan'[k] = loan[k]
        /\ loan[j].cap = 0 /\ loan'[j].cap = parked.cap
    BY <1>1, <1>3, <2>1 DEF Arena
  <2> QED  BY <1>2, <1>5, <2>2
<1>9. ASSUME NEW n \in Nat, NEW j \in Loans, loan[j] = NoArena,
             loan' = [loan EXCEPT ![j] = NewArena(n)],
             parked' = parked \/ parked.cap < n
      PROVE  ParkedMatched /\ LoansMatched
  <2>1. /\ \A k \in Loans : k # j => loan'[k] = loan[k]
        /\ loan[j].cap = 0 /\ loan'[j].cap = n
    BY <1>1, <1>3, <1>9
  <2> QED  BY <1>2, <1>5, <1>9, <2>1
<1>10. ASSUME NEW n \in Request, NEW j \in Loans, AcquireGrows(n, j)
       PROVE  ParkedMatched /\ LoansMatched
  <2>1. n \in Nat /\ parked.cap < n
    BY <1>10 DEF AcquireGrows, Grows, ValidLayout
  <2> QED  BY <1>9, <1>10, <2>1 DEF AcquireGrows
<1>11. ASSUME NEW n \in Request, AllocateOwned(n) PROVE ParkedMatched /\ LoansMatched
  <2>1. n \in Nat
    BY <1>11 DEF AllocateOwned, ValidLayout
  <2> QED  BY <1>9, <1>11, <2>1 DEF AllocateOwned, Loans
<1>12. ASSUME NEW j \in Loans, NEW a, loan' = [loan EXCEPT ![j] = a],
              a.cap = loan[j].cap, parked' = parked
       PROVE  ParkedMatched /\ LoansMatched
  <2>1. /\ \A k \in Loans : k # j => loan'[k] = loan[k]
        /\ loan'[j].cap = loan[j].cap
    BY <1>1, <1>12
  <2> QED  BY <1>2, <1>5, <1>12, <2>1
<1>13. ASSUME NEW j \in Loans,
              \/ \E written \in SUBSET (0 .. MaxBlocks - 1) : Write(j, written)
              \/ EnsureZeroed(j)
              \/ \E t \in ThreadCounts : SetWorkers(j, t)
       PROVE  ParkedMatched /\ LoansMatched
  <2>1. /\ \A written : [loan[j] EXCEPT !.dirty = @ \cup written, !.zeroed = FALSE].cap
                        = loan[j].cap
        /\ [loan[j] EXCEPT !.dirty = {}, !.zeroed = TRUE].cap = loan[j].cap
        /\ \A t : [loan[j] EXCEPT !.workers = t].cap = loan[j].cap
    BY <1>1 DEF Arena
  <2>2. CASE \E written \in SUBSET (0 .. MaxBlocks - 1) : Write(j, written)
    <3>1. PICK written : Write(j, written)
      BY <2>2
    <3> DEFINE a == [loan[j] EXCEPT !.dirty = @ \cup written, !.zeroed = FALSE]
    <3>2. loan' = [loan EXCEPT ![j] = a] /\ a.cap = loan[j].cap /\ parked' = parked
      BY <1>1, <2>1, <3>1 DEF Write, Arena
    <3> HIDE DEF a
    <3> QED  BY <1>12, <3>2
  <2>3. CASE EnsureZeroed(j)
    <3> DEFINE a == [loan[j] EXCEPT !.dirty = {}, !.zeroed = TRUE]
    <3>1. loan' = [loan EXCEPT ![j] = a] /\ a.cap = loan[j].cap /\ parked' = parked
      BY <1>1, <2>1, <2>3 DEF EnsureZeroed, Arena
    <3> HIDE DEF a
    <3> QED  BY <1>12, <3>1
  <2>4. CASE \E t \in ThreadCounts : SetWorkers(j, t)
    <3>1. PICK t : SetWorkers(j, t)
      BY <2>4
    <3> DEFINE a == [loan[j] EXCEPT !.workers = t]
    <3>2. loan' = [loan EXCEPT ![j] = a] /\ a.cap = loan[j].cap /\ parked' = parked
      BY <1>1, <2>1, <3>1 DEF SetWorkers, Arena
    <3> HIDE DEF a
    <3> QED  BY <1>12, <3>2
  <2> QED  BY <1>13, <2>2, <2>3, <2>4
<1>14. CASE DropGuard \/ ReleaseOwned
  <2>1. PICK j \in Loans : Release(j)
    BY <1>14 DEF DropGuard, ReleaseOwned, Loans
  <2>2. /\ parked.cap <= parked'.cap /\ loan[j].cap <= parked'.cap
        /\ \A k \in Loans : k # j => loan'[k] = loan[k]
    BY <1>1, <2>1, ReleaseKeepsLarger
  <2> QED  BY <1>2, <2>2 DEF ParkedMatched, LoansMatched
<1>15. CASE Panic \/ Catch
  BY <1>4, <1>15 DEF Panic, Catch
<1> QED
  BY <1>6, <1>7, <1>8, <1>10, <1>11, <1>13, <1>14, <1>15
     DEF WorkspaceNext, OnPurpose

\* A workspace that has grown stays grown: releasing a smaller arena, or a request
\* no allocation can satisfy, does not cost the large one.
THEOREM ShrinksOnPurpose == WorkspaceSpec => ShrinksOnlyOnPurpose
<1>1. WorkspaceInv /\ [WorkspaceNext]_wsVars => [Largest' < Largest => OnPurpose]_wsVars
  <2> SUFFICES ASSUME WorkspaceInv, [WorkspaceNext]_wsVars, ~OnPurpose
               PROVE  ~(Largest' < Largest)
    OBVIOUS
  <2> QED  BY WorkspaceNextInv, ArenasMatched, Matched, NoneSmaller
<1>2. OnPurpose = \/ Clear \/ DropOwned \/ ForgetGuard
                  \/ \E n \in 1 .. MaxBlocks : n > parked.cap /\ GrowthFails(n)
  BY DEF OnPurpose
<1>3. WorkspaceSpec => [][Largest' < Largest => OnPurpose]_wsVars
  BY <1>1, WorkspaceInvHolds, PTL DEF WorkspaceSpec
<1> QED  BY <1>3 DEF ShrinksOnlyOnPurpose, OnPurpose

-----------------------------------------------------------------------------
(* Hasher *)

CallOK ==
  /\ config \in Params
  /\ call \in {Idle} \cup Call

\* What the owner asked for bounds what is kept; a call holds one arena.
RatchetOK ==
  /\ asked \in 1 .. MaxBlocks + 1
  /\ config.blocks <= asked
  /\ parked.cap <= asked
  /\ loan["guard"].cap <= asked

CallHolds ==
  \A k \in Loans : loan[k] # NoArena => call # Idle /\ call.kind = k

HasherInv == WorkspaceInv /\ CallOK /\ RatchetOK /\ CallHolds

LEMMA IdleIsNoCall == Idle \notin Call
<1> SUFFICES ASSUME Idle \in Call PROVE FALSE
  OBVIOUS
<1>1. Idle.at \in {"acquired", "sized", "leaving"}
  BY DEF Call
<1> QED  BY <1>1 DEF Idle

LEMMA HasherInitInv == ASSUME HasherInit PROVE HasherInv
<1>1. WorkspaceInv
  BY WorkspaceInitInv DEF HasherInit
<1>2. CallOK /\ CallHolds
  BY DEF HasherInit, Init, CallOK, CallHolds
<1>3. RatchetOK
  BY WorkspaceAssumption
     DEF HasherInit, Init, RatchetOK, Params, NoArena, NewArena, Loans
<1> QED  BY <1>1, <1>2, <1>3 DEF HasherInv

\* Every step of a hasher is a step of a client of its workspace.
LEMMA HasherStepIsWorkspaceStep ==
  ASSUME CallOK, [HasherNext]_hasherVars
  PROVE  [WorkspaceNext]_wsVars
<1>1. config.blocks \in Request
  BY WorkspaceAssumption DEF CallOK, Params, Request
<1>2. ASSUME NEW params \in Params PROVE params.blocks \in Request
  BY WorkspaceAssumption DEF Params, Request
<1>3. ASSUME NEW params \in Params, AcquirePooled(params)
      PROVE  [WorkspaceNext]_wsVars
  BY <1>2, <1>3 DEF AcquirePooled, WorkspaceNext, Loans
<1>4. CASE HasherReserve
  BY <1>1, <1>4 DEF HasherReserve, WorkspaceNext
<1>5. CASE HasherClear
  BY <1>5 DEF HasherClear, WorkspaceNext
<1>6. CASE HashOwn
  BY <1>3, <1>6 DEF HashOwn, CallOK
<1>7. ASSUME NEW params \in Params, VerifyPooled(params) \/ VerifyPrivate(params)
      PROVE  [WorkspaceNext]_wsVars
  BY <1>2, <1>3, <1>7 DEF VerifyPooled, VerifyPrivate, WorkspaceNext
<1>8. CASE SizeWipe
  <2>1. call \in Call
    BY <1>8 DEF SizeWipe, CallOK, Idle
  <2>2. call.kind \in Loans /\ call.params.threads \in ThreadCounts
    BY <2>1 DEF Call, Params
  <2> QED  BY <1>8, <2>2 DEF SizeWipe, WorkspaceNext
<1>9. CASE HashStores
  <2>1. call \in Call
    BY <1>9 DEF HashStores, CallOK, Idle
  <2>2. call.kind \in Loans
    BY <2>1 DEF Call
  <2> QED  BY <1>9, <2>2 DEF HashStores, WorkspaceNext
<1>10. CASE HashPanics \/ CatchPanic
  BY <1>10 DEF HashPanics, CatchPanic, WorkspaceNext
<1>11. CASE Leave
  BY <1>11 DEF Leave, WorkspaceNext
<1> QED
  BY <1>4, <1>5, <1>6, <1>7, <1>8, <1>9, <1>10, <1>11
     DEF HasherNext, SetArgon2, HashFailsEarly, hasherVars

\* A drop of the guard neither grows the pool nor touches the other loan.
LEMMA ReleaseSizes ==
  ASSUME WorkspaceInv, NEW k \in Loans, Release(k)
  PROVE  /\ parked'.cap = parked.cap \/ parked'.cap = loan[k].cap
         /\ loan' = [loan EXCEPT ![k] = NoArena]
<1>1. loan[k] \in Arena
  BY DEF WorkspaceInv, LoansOK
<1>2. WipeVisible(loan[k]).cap = loan[k].cap
  BY <1>1 DEF WipeVisible, Arena
<1> QED  BY <1>2 DEF Release

\* The acquisition of a size within what the owner asked for.
LEMMA AcquirePooledInv ==
  ASSUME HasherInv, NEW params \in Params, params.blocks <= asked,
         call = Idle, AcquirePooled(params), UNCHANGED <<config, asked>>
  PROVE  CallOK' /\ RatchetOK' /\ CallHolds'
<1> DEFINE n == params.blocks
<1>1. n \in 1 .. MaxBlocks + 1 /\ asked \in 1 .. MaxBlocks + 1
  BY DEF Params, HasherInv, RatchetOK
<1>2. loan \in [Loans -> Arena] /\ parked \in Arena
  BY DEF HasherInv, WorkspaceInv, LoansOK, ParkedOK, Sound
<1>3. \A k \in Loans : loan[k] = NoArena
  BY DEF HasherInv, CallHolds
<1>4. NewArena(n).cap = n /\ NoArena.cap = 0
  BY DEF NewArena, NoArena
<1>5. CASE /\ AcquireParked(n, "guard") \/ AcquireGrows(n, "guard")
           /\ call' = [at |-> "acquired", kind |-> "guard", params |-> params]
  <2>1. PICK a : /\ loan' = [loan EXCEPT !["guard"] = a] /\ parked' = NoArena
                 /\ a.cap = parked.cap \/ a.cap = n
    <3>1. CASE AcquireParked(n, "guard")
      <4>1. [parked EXCEPT !.len = n].cap = parked.cap
        BY <1>2 DEF Arena
      <4> QED  BY <3>1, <4>1 DEF AcquireParked
    <3>2. CASE AcquireGrows(n, "guard")
      BY <1>4, <3>2 DEF AcquireGrows
    <3> QED  BY <1>5, <3>1, <3>2
  <2>2. RatchetOK'
    BY <1>1, <1>2, <1>4, <2>1, WorkspaceAssumption DEF HasherInv, RatchetOK, Loans
  <2>3. call' \in Call
    BY <1>5 DEF Call, Loans
  <2>4. CallOK'
    BY <2>3 DEF HasherInv, CallOK
  <2>5. CallHolds'
    BY <1>2, <1>3, <1>5, <2>1 DEF CallHolds, Loans, Idle
  <2> QED  BY <2>2, <2>4, <2>5
<1>6. CASE /\ ReserveKeeps(n) \/ GrowthFails(n)
           /\ UNCHANGED call
  <2>1. UNCHANGED loan /\ (parked' = parked \/ parked' = NoArena)
    BY <1>6 DEF ReserveKeeps, GrowthFails, wsVars
  <2> QED  BY <1>1, <1>4, <1>6, <2>1, WorkspaceAssumption
           DEF HasherInv, CallOK, RatchetOK, CallHolds
<1> QED  BY <1>5, <1>6 DEF AcquirePooled

\* Every call of the hasher, and every way a hash can end, preserves the
\* invariant.
LEMMA HasherNextInv ==
  ASSUME HasherInv, [HasherNext]_hasherVars
  PROVE  HasherInv'
<1>1. WorkspaceInv'
  BY HasherStepIsWorkspaceStep, WorkspaceNextInv DEF HasherInv
<1>2. /\ asked \in 1 .. MaxBlocks + 1 /\ config.blocks \in 1 .. MaxBlocks + 1
      /\ config.blocks <= asked /\ parked.cap <= asked
      /\ parked.cap \in 0 .. MaxBlocks
  BY DEF HasherInv, RatchetOK, CallOK, Params, WorkspaceInv, ParkedOK, Sound, Arena
<1>3. loan \in [Loans -> Arena] /\ NoArena.cap = 0
  BY DEF HasherInv, WorkspaceInv, LoansOK, NoArena, NewArena
<1>4. call # Idle => call \in Call
  BY DEF HasherInv, CallOK
<1> SUFFICES CallOK' /\ RatchetOK' /\ CallHolds'
  BY <1>1 DEF HasherInv
<1>5. CASE UNCHANGED hasherVars
  BY <1>5 DEF hasherVars, wsVars, HasherInv, CallOK, RatchetOK, CallHolds
<1>6. ASSUME NEW params \in Params, SetArgon2(params)
      PROVE  CallOK' /\ RatchetOK' /\ CallHolds'
  <2>1. params.blocks \in 1 .. MaxBlocks + 1
    BY DEF Params
  <2>2. UNCHANGED <<parked, loan, call>> /\ config' = params
    BY <1>6 DEF SetArgon2, wsVars
  <2>3. /\ asked' \in 1 .. MaxBlocks + 1
        /\ params.blocks <= asked' /\ asked <= asked'
    BY <1>2, <1>6, <2>1, WorkspaceAssumption DEF SetArgon2
  <2>4. loan["guard"].cap \in 0 .. MaxBlocks
    BY <1>3 DEF Arena, Loans
  <2>5. RatchetOK'
    BY <1>2, <2>2, <2>3, <2>4, WorkspaceAssumption DEF HasherInv, RatchetOK
  <2> QED  BY <2>2, <2>5 DEF HasherInv, CallOK, CallHolds
<1>7. CASE HasherReserve \/ HasherClear
  <2>1. UNCHANGED <<loan, config, call, asked>>
    BY <1>7 DEF HasherReserve, HasherClear, ReserveKeeps, ReserveGrows,
       GrowthFails, Clear, wsVars
  <2>2. parked' = parked \/ parked' = NoArena \/ parked' = NewArena(config.blocks)
    BY <1>7 DEF HasherReserve, HasherClear, ReserveKeeps, ReserveGrows,
       GrowthFails, Clear, wsVars
  <2>3. parked'.cap <= asked
    BY <1>2, <1>3, <2>2, WorkspaceAssumption DEF NewArena
  <2> QED  BY <2>1, <2>3 DEF HasherInv, CallOK, RatchetOK, CallHolds
<1>8. CASE HashOwn
  BY <1>2, <1>8, AcquirePooledInv DEF HashOwn, HasherInv, CallOK
<1>9. ASSUME NEW params \in Params, VerifyPooled(params)
      PROVE  CallOK' /\ RatchetOK' /\ CallHolds'
  <2>1. params.blocks <= asked
    BY <1>2, <1>9 DEF VerifyPooled, PooledCeiling, Params
  <2> QED  BY <1>9, <2>1, AcquirePooledInv DEF VerifyPooled
<1>10. ASSUME NEW params \in Params, VerifyPrivate(params)
       PROVE  CallOK' /\ RatchetOK' /\ CallHolds'
  <2>1. call' \in Call /\ call'.kind = "owned" /\ call' # Idle
    BY <1>10 DEF VerifyPrivate, Call, Loans, Idle
  <2>2. loan'["guard"] = NoArena /\ loan'["guard"] = loan["guard"]
    BY <1>3, <1>10 DEF VerifyPrivate, AllocateOwned, HasherInv, CallHolds, Loans
  <2> QED  BY <1>10, <2>1, <2>2
           DEF VerifyPrivate, AllocateOwned, HasherInv, CallOK, RatchetOK, CallHolds,
               Loans
<1>11. ASSUME call \in Call, call'.at \in {"sized", "leaving"},
              call' = [call EXCEPT !.at = call'.at], UNCHANGED <<config, asked, parked>>,
              \A k \in Loans : /\ loan'[k].cap = loan[k].cap
                               /\ loan[k] = NoArena => loan'[k] = NoArena
       PROVE  CallOK' /\ RatchetOK' /\ CallHolds'
  <2>1. call' \in Call /\ call'.kind = call.kind
    BY <1>11 DEF Call
  <2> QED  BY <1>11, <2>1, IdleIsNoCall
           DEF HasherInv, CallOK, RatchetOK, CallHolds, Loans
<1>12. CASE SizeWipe
  <2>1. call \in Call
    BY <1>4, <1>12 DEF SizeWipe, Idle
  <2>2. call' = [call EXCEPT !.at = "sized"] /\ call'.at = "sized"
    BY <1>12, <2>1 DEF SizeWipe, Call
  <2>3. /\ call.kind \in Loans /\ loan[call.kind] # NoArena
        /\ loan' = [loan EXCEPT ![call.kind].workers = call.params.threads]
    BY <1>12, <2>1 DEF SizeWipe, SetWorkers, Holds, Call
  <2>4. \A k \in Loans : /\ loan'[k].cap = loan[k].cap
                         /\ loan[k] = NoArena => loan'[k] = NoArena
    BY <1>3, <2>3 DEF Arena
  <2> QED  BY <1>11, <1>12, <2>1, <2>2, <2>4 DEF SizeWipe, SetWorkers
<1>13. CASE HashStores
  <2>1. call \in Call
    BY <1>4, <1>13 DEF HashStores, Idle
  <2>2. call' = [call EXCEPT !.at = "leaving"] /\ call'.at = "leaving"
    BY <1>13, <2>1 DEF HashStores, Call
  <2>3. PICK written \in SUBSET (0 .. MaxBlocks - 1) : Write(call.kind, written)
    BY <1>13 DEF HashStores
  <2>4. call.kind \in Loans /\ loan[call.kind] # NoArena
    BY <2>1, <2>3 DEF Write, Holds, Call
  <2>5. \A k \in Loans : /\ loan'[k].cap = loan[k].cap
                         /\ loan[k] = NoArena => loan'[k] = NoArena
    BY <1>3, <2>3, <2>4 DEF Write, Arena
  <2> QED  BY <1>11, <1>13, <2>1, <2>2, <2>3, <2>5 DEF HashStores, Write
<1>14. CASE HashFailsEarly \/ HashPanics
  <2>1. call \in Call
    BY <1>4, <1>14 DEF HashFailsEarly, HashPanics, Idle
  <2>2. call' = [call EXCEPT !.at = "leaving"] /\ call'.at = "leaving"
    BY <1>14, <2>1 DEF HashFailsEarly, HashPanics, Call
  <2> QED  BY <1>11, <1>14, <2>1, <2>2 DEF HashFailsEarly, HashPanics, Panic, wsVars
<1>15. CASE Leave
  <2>1. call \in Call
    BY <1>4, <1>15 DEF Leave, Idle
  <2>2. call.kind \in Loans
    BY <2>1 DEF Call
  <2>3. /\ parked'.cap = parked.cap \/ parked'.cap = loan["guard"].cap
        /\ loan' = [loan EXCEPT ![call.kind] = NoArena]
    BY <1>15, <2>2, ReleaseSizes
       DEF Leave, DropGuard, DropOwned, HasherInv, Loans
  <2>4. \A k \in Loans : loan'[k] = NoArena
    BY <1>3, <2>3 DEF HasherInv, CallHolds
  <2> QED  BY <1>2, <1>3, <1>15, <2>3, <2>4
           DEF Leave, HasherInv, CallOK, RatchetOK, CallHolds, Loans
<1>16. CASE CatchPanic
  BY <1>16 DEF CatchPanic, Catch, HasherInv, CallOK, RatchetOK, CallHolds
<1> QED
  BY <1>5, <1>6, <1>7, <1>8, <1>9, <1>10, <1>12, <1>13, <1>14, <1>15, <1>16
     DEF HasherNext

LEMMA HasherInvHolds == HasherSpec => []HasherInv
BY HasherInitInv, HasherNextInv, PTL DEF HasherSpec

\* Hasher is a client of Workspace: what is proved of the workspace holds inside
\* every hasher.
THEOREM HasherImplementsWorkspace == HasherSpec => WorkspaceSpec
<1>1. HasherInit => Init
  BY DEF HasherInit
<1>2. HasherInv /\ [HasherNext]_hasherVars => [WorkspaceNext]_wsVars
  BY HasherStepIsWorkspaceStep DEF HasherInv
<1> QED  BY <1>1, <1>2, HasherInvHolds, PTL DEF HasherSpec, WorkspaceSpec

\* No string to verify makes a hasher keep more than its owner asked for.
THEOREM HasherNoRatchet == HasherSpec => []NoRatchet
<1>1. HasherInv => NoRatchet
  BY DEF HasherInv, RatchetOK, NoRatchet
<1> QED  BY <1>1, HasherInvHolds, PTL

\* Between calls nothing is on loan and, with zeroize-memory, what is kept is zero.
THEOREM HasherAtRest == HasherSpec => []AtRest
<1>1. HasherInv => AtRest
  BY DEF HasherInv, WorkspaceInv, ParkedOK, CallHolds, AtRest
<1> QED  BY <1>1, HasherInvHolds, PTL

-----------------------------------------------------------------------------
\* The two arenas a pool can be in, before a step and after it.
PoolMatched ==
  /\ parked.cap <= parked'.cap \/ parked.cap <= loan'["guard"].cap
  /\ loan["guard"].cap <= parked'.cap \/ loan["guard"].cap <= loan'["guard"].cap

PoolLost == Clear \/ \E n \in 1 .. asked : GrowthFails(n)

LEMMA PoolKeeps ==
  ASSUME WorkspaceInv, WorkspaceInv', PoolMatched
  PROVE  ~(PoolSize' < PoolSize)
<1>1. /\ parked \in Arena /\ loan["guard"] \in Arena
      /\ parked' \in Arena /\ loan'["guard"] \in Arena
  BY DEF WorkspaceInv, ParkedOK, LoansOK, Sound, Loans
<1>2. /\ parked.cap \in Nat /\ loan["guard"].cap \in Nat
      /\ parked'.cap \in Nat /\ loan'["guard"].cap \in Nat
  BY <1>1, WorkspaceAssumption DEF Arena
<1> QED  BY <1>2 DEF PoolSize, PoolMatched

\* An acquisition moves the pooled arena, grows it, or leaves it where it is.
LEMMA AcquirePooledKeeps ==
  ASSUME HasherInv, NEW params \in Params, params.blocks <= asked,
         call = Idle, AcquirePooled(params), ~PoolLost
  PROVE  PoolMatched
<1> DEFINE n == params.blocks
<1>1. n \in 1 .. asked
  BY DEF Params, HasherInv, RatchetOK
<1>2. loan \in [Loans -> Arena] /\ parked \in Arena /\ "guard" \in Loans
  BY DEF HasherInv, WorkspaceInv, LoansOK, ParkedOK, Sound, Loans
<1>3. loan["guard"] = NoArena
  BY DEF HasherInv, CallHolds, Loans
<1>4. NoArena.cap = 0 /\ NewArena(n).cap = n
  BY DEF NoArena, NewArena
<1>5. parked.cap \in Nat /\ n \in Nat
  BY <1>1, <1>2, WorkspaceAssumption DEF Arena
<1>6. CASE AcquireParked(n, "guard")
  <2>1. loan'["guard"].cap = parked.cap
    BY <1>2, <1>6 DEF AcquireParked, Arena
  <2> QED  BY <1>3, <1>4, <1>5, <2>1 DEF PoolMatched
<1>7. CASE AcquireGrows(n, "guard")
  <2>1. loan'["guard"].cap = n
    BY <1>2, <1>4, <1>7 DEF AcquireGrows
  <2>2. parked.cap < n
    BY <1>7 DEF AcquireGrows, Grows
  <2> QED  BY <1>3, <1>4, <1>5, <2>1, <2>2 DEF PoolMatched
<1>8. CASE ReserveKeeps(n)
  BY <1>3, <1>4, <1>5, <1>8 DEF ReserveKeeps, wsVars, PoolMatched
<1>9. CASE GrowthFails(n)
  BY <1>1, <1>9 DEF PoolLost
<1> QED  BY <1>6, <1>7, <1>8, <1>9 DEF AcquirePooled

\* No step of a hasher makes its pool smaller but the two it means to.
LEMMA StepKeepsPool ==
  ASSUME HasherInv, [HasherNext]_hasherVars, ~PoolLost
  PROVE  PoolMatched
<1>1. loan \in [Loans -> Arena] /\ parked \in Arena /\ "guard" \in Loans
  BY DEF HasherInv, WorkspaceInv, LoansOK, ParkedOK, Sound, Loans
<1>2. parked.cap \in Nat /\ \A k \in Loans : loan[k].cap \in Nat
  BY <1>1, WorkspaceAssumption DEF Arena
<1>3. call # Idle => call \in Call
  BY DEF HasherInv, CallOK
<1>4. ASSUME parked' = parked, loan'["guard"].cap = loan["guard"].cap
      PROVE  PoolMatched
  BY <1>1, <1>2, <1>4 DEF PoolMatched
<1>5. CASE UNCHANGED hasherVars
  BY <1>4, <1>5 DEF hasherVars, wsVars
<1>6. ASSUME NEW params \in Params, SetArgon2(params) PROVE PoolMatched
  BY <1>4, <1>6 DEF SetArgon2, wsVars
<1>7. CASE HasherReserve
  <2>1. config.blocks \in 1 .. asked
    BY DEF HasherInv, RatchetOK, CallOK, Params
  <2>2. CASE ReserveKeeps(config.blocks)
    BY <1>4, <2>2 DEF ReserveKeeps, wsVars
  <2>3. CASE ReserveGrows(config.blocks)
    <3>1. /\ parked'.cap = config.blocks /\ parked.cap < config.blocks
          /\ loan' = loan /\ config.blocks \in Nat
      BY <2>1, <2>3 DEF ReserveGrows, Grows, NewArena
    <3> QED  BY <1>1, <1>2, <3>1 DEF PoolMatched
  <2>4. CASE GrowthFails(config.blocks)
    BY <2>1, <2>4 DEF PoolLost
  <2> QED  BY <1>7, <2>2, <2>3, <2>4 DEF HasherReserve
<1>8. CASE HasherClear
  BY <1>8 DEF HasherClear, PoolLost
<1>9. CASE HashOwn
  BY <1>9, AcquirePooledKeeps DEF HashOwn, HasherInv, CallOK, RatchetOK
<1>10. ASSUME NEW params \in Params, VerifyPooled(params) PROVE PoolMatched
  <2>1. params.blocks <= asked
    <3>1. /\ asked \in Nat /\ config.blocks \in Nat /\ params.blocks \in Nat
          /\ config.blocks <= asked /\ parked.cap <= asked
      BY DEF HasherInv, RatchetOK, CallOK, Params
    <3> QED  BY <1>2, <1>10, <3>1 DEF VerifyPooled, PooledCeiling
  <2> QED  BY <1>10, <2>1, AcquirePooledKeeps DEF VerifyPooled
<1>11. ASSUME NEW params \in Params, VerifyPrivate(params) PROVE PoolMatched
  BY <1>1, <1>4, <1>11 DEF VerifyPrivate, AllocateOwned, Loans
<1>12. CASE SizeWipe
  <2>1. call \in Call
    BY <1>3, <1>12 DEF SizeWipe, Idle
  <2>2. call.kind \in Loans
    BY <2>1 DEF Call
  <2> QED  BY <1>1, <1>4, <1>12, <2>2 DEF SizeWipe, SetWorkers, Arena
<1>13. CASE HashStores
  <2>1. call \in Call
    BY <1>3, <1>13 DEF HashStores, Idle
  <2>2. call.kind \in Loans
    BY <2>1 DEF Call
  <2> QED  BY <1>1, <1>4, <1>13, <2>2 DEF HashStores, Write, Arena
<1>14. CASE HashFailsEarly \/ HashPanics \/ CatchPanic
  BY <1>4, <1>14 DEF HashFailsEarly, HashPanics, Panic, CatchPanic, Catch, wsVars
<1>15. CASE Leave
  <2>1. CASE call.kind = "guard"
    <3>1. Release("guard")
      BY <1>15, <2>1 DEF Leave, DropGuard
    <3> QED  BY <1>1, <3>1, ReleaseKeepsLarger DEF HasherInv, PoolMatched
  <2>2. CASE call.kind # "guard"
    BY <1>1, <1>4, <1>15, <2>2 DEF Leave, DropOwned, Loans
  <2> QED  BY <2>1, <2>2
<1> QED
  BY <1>5, <1>6, <1>7, <1>8, <1>9, <1>10, <1>11, <1>12, <1>13, <1>14, <1>15
     DEF HasherNext

\* A hasher keeps its pool through errors, panics and strings that ask for too much:
\* it is lost only to clear, or to an allocation that failed for a size its owner
\* asked for.
THEOREM HasherKeepsPool == HasherSpec => PoolOutlivesCalls
<1>1. HasherInv /\ [HasherNext]_hasherVars => [PoolSize' < PoolSize => PoolLost]_hasherVars
  <2> SUFFICES ASSUME HasherInv, [HasherNext]_hasherVars, ~PoolLost
               PROVE  ~(PoolSize' < PoolSize)
    OBVIOUS
  <2> QED  BY HasherNextInv, StepKeepsPool, PoolKeeps DEF HasherInv
<1>2. HasherSpec => [][PoolSize' < PoolSize => PoolLost]_hasherVars
  BY <1>1, HasherInvHolds, PTL DEF HasherSpec
<1> QED  BY <1>2 DEF PoolOutlivesCalls, PoolLost

-----------------------------------------------------------------------------
LEMMA ProductMonotone ==
  ASSUME NEW i \in Int, NEW j \in Int, NEW p \in Nat, i <= j
  PROVE  i * p <= j * p
  BY SMT

-----------------------------------------------------------------------------
(* StripeWipe                                                               *)

LEMMA FloorDivision ==
  ASSUME NEW a \in Int, NEW b \in Nat \ {0}
  PROVE  /\ a \div b \in Int
         /\ (a \div b) * b <= a
         /\ a < (a \div b) * b + b
  BY SMT

\* CeilDiv is the least number of pieces of b that cover a.
LEMMA Ceiling ==
  ASSUME NEW a \in Nat, NEW b \in Nat \ {0}
  PROVE  /\ CeilDiv(a, b) \in Nat
         /\ CeilDiv(a, b) * b >= a
         /\ CeilDiv(a, b) * b < a + b
         /\ a > 0 => CeilDiv(a, b) > 0
  BY FloorDivision, SMT DEF CeilDiv

LEMMA WholeUnits ==
  ASSUME NEW a \in Nat, NEW b \in Nat \ {0}, a % b = 0
  PROVE  a \div b \in Nat /\ a = (a \div b) * b
  BY SMT

LEMMA QuotientBound ==
  ASSUME NEW x \in Int, NEW b \in Nat \ {0}, NEW m \in Int
  PROVE  /\ x < m * b => x \div b < m
         /\ m * b <= x => m <= x \div b
  BY FloorDivision, SMT

-----------------------------------------------------------------------------
(* The geometry of the stripes *)

\* The length of a stripe is a positive number of whole units.
LEMMA PerOK ==
  ASSUME StripeTypeOK
  PROVE  /\ Per \in Nat \ {0}
         /\ Per = CeilDiv(CeilDiv(len, workers), unit) * unit
         /\ CeilDiv(CeilDiv(len, workers), unit) \in Nat \ {0}
         /\ len \in Nat \ {0}
         /\ unit \in Nat \ {0}
  <1>1. len \in Nat \ {0} /\ workers \in Nat \ {0} /\ unit \in Nat \ {0}
    BY StripeAssumption DEF StripeTypeOK
  <1>2. CeilDiv(len, workers) \in Nat \ {0}
    BY <1>1, Ceiling
  <1>3. CeilDiv(CeilDiv(len, workers), unit) \in Nat \ {0}
    <2> DEFINE c == CeilDiv(len, workers)
    <2>1. c \in Nat \ {0}
      BY <1>2
    <2> HIDE DEF c
    <2>2. CeilDiv(c, unit) \in Nat \ {0}
      BY <1>1, <2>1, Ceiling
    <2> QED  BY <2>2 DEF c
  <1>4. CeilDiv(CeilDiv(len, workers), unit) * unit \in Nat \ {0}
    BY <1>1, <1>3, SMT
  <1> QED  BY <1>1, <1>3, <1>4 DEF Per, NextMultipleOf

LEMMA StripesOK ==
  ASSUME StripeTypeOK
  PROVE  /\ Stripes \in Nat
         /\ Stripes * Per >= len
         /\ \A i \in Nat : i < Stripes => i * Per < len
  <1>1. Stripes \in Nat /\ Stripes * Per >= len /\ Stripes * Per < len + Per
    BY PerOK, Ceiling DEF Stripes
  <1>2. ASSUME NEW i \in Nat, i < Stripes
        PROVE  i * Per < len
    <2>1. (i + 1) * Per <= Stripes * Per
      BY <1>1, <1>2, PerOK, ProductMonotone
    <2>2. (i + 1) * Per = i * Per + Per /\ i * Per \in Nat /\ Stripes * Per \in Nat
      BY <1>1, PerOK, SMT
    <2> QED  BY <1>1, <2>1, <2>2, PerOK, SMT
  <1> QED  BY <1>1, <1>2

\* A stripe, as its bounds: it ends where the next one begins, or with the region.
LEMMA StripeIs ==
  ASSUME StripeTypeOK, NEW i \in Nat, NEW b
  PROVE  b \in Stripe(i) <=>
           /\ b \in Int /\ start + i * Per <= b
           /\ b < start + i * Per + Per /\ b < start + len
  <1> DEFINE off == i * Per
  <1>1. start \in Nat /\ off \in Nat /\ Per \in Nat /\ len \in Nat
    <2>1. start \in Nat
      BY StripeAssumption DEF StripeTypeOK
    <2>2. Per \in Nat /\ len \in Nat
      BY PerOK
    <2>3. i * Per \in Nat
      BY <2>2, SMT
    <2> QED  BY <2>1, <2>2, <2>3
  <1>2. Stripe(i) = Bytes(start + off, IF Per < len - off THEN Per ELSE len - off)
    BY DEF Stripe
  <1> HIDE DEF off
  <1>3. CASE Per < len - off
    <2>1. Stripe(i) = start + off .. start + off + Per - 1
      BY <1>2, <1>3 DEF Bytes
    <2>2. b \in Stripe(i) <=> /\ b \in Int /\ start + off <= b
                              /\ b < start + off + Per /\ b < start + len
      BY <1>1, <1>3, <2>1, SMT
    <2> QED  BY <2>2 DEF off
  <1>4. CASE ~ (Per < len - off)
    <2>1. Stripe(i) = start + off .. start + off + (len - off) - 1
      BY <1>2, <1>4 DEF Bytes
    <2>2. b \in Stripe(i) <=> /\ b \in Int /\ start + off <= b
                              /\ b < start + off + Per /\ b < start + len
      BY <1>1, <1>4, <2>1, SMT
    <2> QED  BY <2>2 DEF off
  <1> QED  BY <1>3, <1>4

LEMMA RegionIs ==
  ASSUME StripeTypeOK, NEW b
  PROVE  /\ b \in Region <=> b \in Int /\ start <= b /\ b < start + len
         /\ start \in Nat
  <1>1. start \in Nat /\ len \in Nat
    BY StripeAssumption, PerOK DEF StripeTypeOK
  <1>2. Region = start .. start + len - 1
    BY DEF Region, Bytes
  <1> QED  BY <1>1, <1>2, SMT

\* No stripe reaches out of the region.
LEMMA StripeInside ==
  ASSUME StripeTypeOK, NEW i \in Nat
  PROVE  Stripe(i) \subseteq Region
  <1> SUFFICES ASSUME NEW b \in Stripe(i) PROVE b \in Region
    OBVIOUS
  <1>1. b \in Int /\ start + i * Per <= b /\ b < start + len
    BY StripeIs
  <1>2. i * Per \in Nat /\ start \in Nat
    BY PerOK, RegionIs, SMT
  <1>3. start <= b
    BY <1>1, <1>2, SMT
  <1> QED  BY <1>1, <1>3, RegionIs

\* The stripes cover the region.
LEMMA StripesCover ==
  ASSUME StripeTypeOK, NEW b \in Region
  PROVE  \E i \in Nat : i < Stripes /\ b \in Stripe(i)
  <1> DEFINE o == b - start
             i == o \div Per
  <1>1. o \in Nat /\ o < len /\ Per \in Nat \ {0} /\ b \in Int /\ start \in Nat /\ b < start + len
    <2>1. b \in Int /\ start <= b /\ b < start + len /\ start \in Nat /\ len \in Nat
      BY RegionIs, PerOK
    <2> QED  BY <2>1, PerOK, SMT
  <1> HIDE DEF o
  <1>2. i \in Int /\ i * Per <= o /\ o < i * Per + Per
    BY <1>1, FloorDivision
  <1>3. i \in Nat
    <2>1. 0 * Per <= o
      BY <1>1, SMT
    <2> QED  BY <1>1, <1>2, <2>1, QuotientBound, SMT
  <1>4. i < Stripes
    <2>1. o < Stripes * Per /\ Stripes \in Int
      <3>1. Stripes * Per >= len /\ Stripes \in Nat /\ len \in Nat
        BY StripesOK, PerOK
      <3>2. Stripes * Per \in Nat
        BY <1>1, <3>1, SMT
      <3> QED  BY <1>1, <3>1, <3>2, SMT
    <2> QED  BY <1>1, <2>1, QuotientBound
  <1>5. b \in Stripe(i)
    <2> HIDE DEF i
    <2>1. i * Per \in Int /\ o = b - start
      BY <1>1, <1>3, SMT DEF o
    <2>2. start + i * Per <= b /\ b < start + i * Per + Per
      BY <1>1, <1>2, <2>1, SMT
    <2> QED  BY <1>1, <1>3, <2>2, StripeIs
  <1> QED  BY <1>3, <1>4, <1>5

\* A byte of an earlier stripe lies in an earlier unit: stripes begin on whole units,
\* for the region does.
LEMMA StripesApartInOrder ==
  ASSUME StripeTypeOK, NEW i \in Nat, NEW j \in Nat, i < j,
         NEW b \in Stripe(i), NEW c \in Stripe(j)
  PROVE  b \div unit < c \div unit /\ b < c
  <1> DEFINE k == CeilDiv(CeilDiv(len, workers), unit)
             q == start \div unit
  <1>1. /\ Per \in Nat \ {0} /\ unit \in Nat \ {0} /\ k \in Nat
        /\ Per = k * unit
    BY PerOK
  <1>2. b \in Int /\ c \in Int /\ b < start + i * Per + Per /\ start + j * Per <= c
    BY StripeIs
  <1>3. start \in Nat /\ q \in Nat /\ start = q * unit
    <2>1. start \in Nat /\ start % unit = 0
      BY RegionIs DEF StripeTypeOK
    <2> QED  BY <1>1, <2>1, WholeUnits
  <1> HIDE DEF k, q
  <1>4. (i + 1) * Per <= j * Per
    BY <1>1, ProductMonotone, SMT
  <1>5. (i + 1) * Per = i * Per + Per /\ i * Per \in Int /\ j * Per \in Int
    BY <1>1, SMT
  <1>6. b < start + j * Per
    BY <1>1, <1>2, <1>3, <1>4, <1>5, SMT
  <1>7. j * Per = (j * k) * unit /\ j * k \in Int
    BY <1>1, SMT
  <1>8. start + j * Per = (q + j * k) * unit
    <2> DEFINE x == j * k
    <2>1. x \in Int /\ j * Per = x * unit
      BY <1>7
    <2> HIDE DEF x
    <2>2. (q + x) * unit = q * unit + x * unit
      BY <1>1, <1>3, <2>1, SMT
    <2> QED  BY <1>3, <2>1, <2>2 DEF x
  <1>9. q + j * k \in Int
    BY <1>3, <1>7, SMT
  <1>10. b \div unit < q + j * k /\ q + j * k <= c \div unit
    BY <1>1, <1>2, <1>6, <1>8, <1>9, QuotientBound
  <1>11. b \div unit \in Int /\ c \div unit \in Int
    BY <1>1, <1>2, FloorDivision
  <1>12. b < c
    BY <1>2, <1>3, <1>5, <1>6, SMT
  <1> QED  BY <1>9, <1>10, <1>11, <1>12, SMT

\* So no byte is in two of them.
LEMMA StripesDisjoint ==
  ASSUME StripeTypeOK, NEW i \in Nat, NEW j \in Nat, i # j
  PROVE  Stripe(i) \cap Stripe(j) = {}
  <1> SUFFICES ASSUME NEW b \in Stripe(i), b \in Stripe(j) PROVE FALSE
    OBVIOUS
  <1>1. b \in Int /\ ~ (b < b)
    BY StripeIs, SMT
  <1>2. CASE i < j
    BY <1>1, <1>2, StripesApartInOrder
  <1>3. CASE j < i
    BY <1>1, <1>3, StripesApartInOrder
  <1> QED  BY <1>2, <1>3, SMT

-----------------------------------------------------------------------------
(* The inductive invariant *)

Working == {"claim", "wipe"}

\* The caller is the only one that starts, spawns, joins and returns.
Roles ==
  /\ pc[Caller] \in {"start", "spawn", "claim", "wipe", "join", "returned"}
  /\ \A t \in Thread : t # Caller =>
       /\ pc[t] \in {"unborn", "refused", "claim", "wipe", "done"}
       /\ pc[Caller] = "start" \/ t \notin 2 .. workers => pc[t] = "unborn"

\* Nobody holds a stripe that was not handed out, and nobody holds one twice.
Claims ==
  /\ \A t \in Thread : pc[t] = "wipe" => stripe[t] < next /\ stripe[t] < Stripes
  /\ \A t, u \in Thread :
       pc[t] = "wipe" /\ pc[u] = "wipe" /\ t # u => stripe[t] # stripe[u]

\* A stripe that was handed out has been wiped or is held.
Accounted ==
  \A i \in Nat : i < next /\ i < Stripes =>
    \/ Stripe(i) \subseteq wiped
    \/ \E t \in Thread : pc[t] = "wipe" /\ stripe[t] = i

\* Threads leave when there is nothing to claim.
Exhausted == \A t \in Thread : pc[t] \in {"join", "done"} => next >= Stripes

Over ==
  pc[Caller] = "returned" =>
    wiped = Region /\ \A t \in Thread : pc[t] \notin Working

\* Nothing of a stripe that is held, or was not handed out, has been wiped.
Untouched ==
  /\ \A t \in Thread, i \in Nat :
       pc[t] = "wipe" /\ stripe[t] = i => Stripe(i) \cap wiped = {}
  /\ pc[Caller] # "returned" => \A i \in Nat : next <= i => Stripe(i) \cap wiped = {}

WipeInvariant ==
  StripeTypeOK /\ Roles /\ Claims /\ Accounted /\ Exhausted /\ Over /\ Untouched

LEMMA CallerOK == Caller \in Thread
  BY StripeAssumption DEF Caller, Thread

LEMMA GeometryStays ==
  ASSUME UNCHANGED arguments
  PROVE  /\ Stripes' = Stripes
         /\ Per' = Per
         /\ Region' = Region
         /\ \A i \in Nat : Stripe(i)' = Stripe(i)
  BY DEF arguments, Stripes, Per, Region, Stripe, Bytes

\* A step that wipes nothing and hands nothing out.
LEMMA UntouchedStays ==
  ASSUME StripeTypeOK, Untouched, UNCHANGED <<arguments, wiped>>,
         next' \in Nat, next <= next',
         \A t \in Thread : pc'[t] = "wipe" => pc[t] = "wipe" /\ stripe'[t] = stripe[t],
         pc'[Caller] # "returned" => pc[Caller] # "returned"
  PROVE  Untouched'
  <1>1. \A i \in Nat : Stripe(i)' = Stripe(i)
    BY GeometryStays
  <1>2. ASSUME NEW t \in Thread, NEW i \in Nat, pc'[t] = "wipe", stripe'[t] = i
        PROVE  Stripe(i)' \cap wiped' = {}
    BY <1>1, <1>2 DEF Untouched
  <1>3. ASSUME pc'[Caller] # "returned", NEW i \in Nat, next' <= i
        PROVE  Stripe(i)' \cap wiped' = {}
    <2>1. next <= i
      BY <1>3, SMT DEF StripeTypeOK
    <2> QED  BY <1>1, <1>3, <2>1 DEF Untouched
  <1> QED  BY <1>2, <1>3 DEF Untouched

LEMMA InitInv == StripeInit => WipeInvariant
  <1> SUFFICES ASSUME StripeInit PROVE WipeInvariant
    OBVIOUS
  <1>1. StripeTypeOK
    BY DEF StripeInit, StripeTypeOK, Region
  <1>2. Roles
    BY CallerOK DEF StripeInit, Roles, Caller, Thread
  <1>3. Claims
    BY DEF StripeInit, Claims
  <1>4. Accounted
    BY DEF StripeInit, Accounted
  <1>5. Exhausted
    BY DEF StripeInit, Exhausted
  <1>6. Over
    BY CallerOK DEF StripeInit, Over
  <1>7. Untouched
    BY DEF StripeInit, Untouched
  <1> QED  BY <1>1, <1>2, <1>3, <1>4, <1>5, <1>6, <1>7 DEF WipeInvariant

LEMMA WipeWholeInv == ASSUME WipeInvariant, WipeWhole PROVE WipeInvariant'
  <1> USE DEF WipeWhole, WipeInvariant
  <1>1. StripeTypeOK'
    BY CallerOK, GeometryStays DEF StripeTypeOK, arguments
  <1>2. Roles'
    BY CallerOK DEF Roles, StripeTypeOK, arguments
  <1>3. Claims'
    BY CallerOK DEF Roles, StripeTypeOK, Claims
  <1>4. Accounted'
    <2>1. \A i \in Nat : Stripe(i)' = Stripe(i) /\ Stripe(i) \subseteq Region
      BY GeometryStays, StripeInside
    <2>2. wiped' = Region
      OBVIOUS
    <2> QED  BY <2>1, <2>2 DEF Accounted
  <1>5. Exhausted'
    BY CallerOK DEF Roles, Exhausted, StripeTypeOK
  <1>6. Over'
    BY CallerOK, GeometryStays DEF Over, Roles, Working, StripeTypeOK
  <1>7. Untouched'
    <2>1. \A u \in Thread : pc'[u] # "wipe"
      BY CallerOK DEF Roles, StripeTypeOK
    <2>2. pc'[Caller] = "returned"
      BY CallerOK DEF StripeTypeOK
    <2> QED  BY <2>1, <2>2 DEF Untouched
  <1> QED  BY <1>1, <1>2, <1>3, <1>4, <1>5, <1>6, <1>7

LEMMA EnterScopeInv == ASSUME WipeInvariant, EnterScope PROVE WipeInvariant'
  <1> USE DEF EnterScope, WipeInvariant
  <1>1. StripeTypeOK'
    BY CallerOK, GeometryStays DEF StripeTypeOK, arguments
  <1>2. Roles'
    BY CallerOK DEF Roles, StripeTypeOK, arguments
  <1>3. Claims'
    BY CallerOK, GeometryStays DEF Claims, StripeTypeOK
  <1>4. Accounted'
    BY CallerOK, GeometryStays DEF Accounted, StripeTypeOK
  <1>5. Exhausted'
    BY CallerOK, GeometryStays DEF Exhausted, StripeTypeOK
  <1>6. Over'
    BY CallerOK DEF Over, StripeTypeOK
  <1>7. Untouched'
    <2>1. next' \in Nat /\ next <= next'
      BY SMT DEF StripeTypeOK
    <2>2. \A u \in Thread : pc'[u] = "wipe" => pc[u] = "wipe" /\ stripe'[u] = stripe[u]
      BY DEF StripeTypeOK
    <2>3. pc'[Caller] # "returned" => pc[Caller] # "returned"
      BY CallerOK DEF StripeTypeOK
    <2> QED  BY <2>1, <2>2, <2>3, UntouchedStays
  <1> QED  BY <1>1, <1>2, <1>3, <1>4, <1>5, <1>6, <1>7

LEMMA SpawnInv == ASSUME WipeInvariant, NEW t \in Thread, Spawn(t) PROVE WipeInvariant'
  <1> USE DEF Spawn, WipeInvariant
  <1>1. StripeTypeOK'
    BY GeometryStays DEF StripeTypeOK, arguments
  <1>2. Roles' /\ t # Caller
    BY CallerOK DEF Roles, StripeTypeOK, arguments, Caller
  <1>3. Claims'
    BY GeometryStays DEF Claims, StripeTypeOK
  <1>4. Accounted'
    BY GeometryStays DEF Accounted, StripeTypeOK
  <1>5. Exhausted'
    BY GeometryStays DEF Exhausted, StripeTypeOK
  <1>6. Over'
    BY <1>2, CallerOK DEF Over, StripeTypeOK
  <1>7. Untouched'
    <2>1. next' \in Nat /\ next <= next'
      BY SMT DEF StripeTypeOK
    <2>2. \A u \in Thread : pc'[u] = "wipe" => pc[u] = "wipe" /\ stripe'[u] = stripe[u]
      BY DEF StripeTypeOK
    <2>3. pc'[Caller] # "returned" => pc[Caller] # "returned"
      BY CallerOK DEF StripeTypeOK
    <2> QED  BY <2>1, <2>2, <2>3, UntouchedStays
  <1> QED  BY <1>1, <1>2, <1>3, <1>4, <1>5, <1>6, <1>7

LEMMA SpawnLoopEndsInv == ASSUME WipeInvariant, SpawnLoopEnds PROVE WipeInvariant'
  <1> USE DEF SpawnLoopEnds, WipeInvariant
  <1>1. StripeTypeOK'
    BY CallerOK, GeometryStays DEF StripeTypeOK, arguments
  <1>2. Roles'
    BY CallerOK DEF Roles, StripeTypeOK, arguments
  <1>3. Claims'
    BY CallerOK, GeometryStays DEF Claims, StripeTypeOK
  <1>4. Accounted'
    BY CallerOK, GeometryStays DEF Accounted, StripeTypeOK
  <1>5. Exhausted'
    BY CallerOK, GeometryStays DEF Exhausted, StripeTypeOK
  <1>6. Over'
    BY CallerOK DEF Over, StripeTypeOK
  <1>7. Untouched'
    <2>1. next' \in Nat /\ next <= next'
      BY SMT DEF StripeTypeOK
    <2>2. \A u \in Thread : pc'[u] = "wipe" => pc[u] = "wipe" /\ stripe'[u] = stripe[u]
      BY DEF StripeTypeOK
    <2>3. pc'[Caller] # "returned" => pc[Caller] # "returned"
      BY CallerOK DEF StripeTypeOK
    <2> QED  BY <2>1, <2>2, <2>3, UntouchedStays
  <1> QED  BY <1>1, <1>2, <1>3, <1>4, <1>5, <1>6, <1>7

LEMMA ClaimStripeInv == ASSUME WipeInvariant, NEW t \in Thread, ClaimStripe(t) PROVE WipeInvariant'
  <1> USE DEF ClaimStripe, WipeInvariant
  <1>1. StripeTypeOK'
    BY GeometryStays DEF StripeTypeOK, arguments
  <1>2. Roles'
    BY CallerOK DEF Roles, StripeTypeOK, arguments
  <1>3. Claims'
    BY GeometryStays, StripesOK, SMT DEF Claims, StripeTypeOK
  <1>4. Accounted'
    <2> SUFFICES ASSUME NEW i \in Nat, i < next + 1, i < Stripes
                 PROVE  \/ Stripe(i) \subseteq wiped
                        \/ \E u \in Thread : pc'[u] = "wipe" /\ stripe'[u] = i
      BY GeometryStays DEF Accounted
    <2>1. CASE i = next
      BY <2>1 DEF StripeTypeOK
    <2>2. CASE i # next
      <3>1. \/ Stripe(i) \subseteq wiped
            \/ \E u \in Thread : pc[u] = "wipe" /\ stripe[u] = i
        BY <2>2 DEF Accounted, StripeTypeOK
      <3> QED  BY <3>1 DEF StripeTypeOK
    <2> QED  BY <2>1, <2>2
  <1>5. Exhausted'
    BY GeometryStays, StripesOK DEF Exhausted, StripeTypeOK
  <1>6. Over'
    BY CallerOK DEF Over, StripeTypeOK, Working
  <1>7. Untouched'
    <2>1. pc[Caller] # "returned"
      BY DEF Over, Working
    <2>2. \A i \in Nat : Stripe(i)' = Stripe(i)
      BY GeometryStays
    <2>3. ASSUME NEW u \in Thread, NEW i \in Nat, pc'[u] = "wipe", stripe'[u] = i
          PROVE  Stripe(i)' \cap wiped' = {}
      <3>1. CASE u = t
        <4>1. i = next /\ next <= i
          BY <2>3, <3>1, SMT DEF StripeTypeOK
        <4> QED  BY <2>1, <2>2, <4>1 DEF Untouched
      <3>2. CASE u # t
        <4>1. pc[u] = "wipe" /\ stripe[u] = i
          BY <2>3, <3>2 DEF StripeTypeOK
        <4> QED  BY <2>2, <4>1 DEF Untouched
      <3> QED  BY <3>1, <3>2
    <2>4. ASSUME NEW i \in Nat, next' <= i
          PROVE  Stripe(i)' \cap wiped' = {}
      <3>1. next <= i
        BY <2>4, SMT DEF StripeTypeOK
      <3> QED  BY <2>1, <2>2, <3>1 DEF Untouched
    <2> QED  BY <2>3, <2>4 DEF Untouched
  <1> QED  BY <1>1, <1>2, <1>3, <1>4, <1>5, <1>6, <1>7

LEMMA StripesExhaustedInv ==
  ASSUME WipeInvariant, NEW t \in Thread, StripesExhausted(t) PROVE WipeInvariant'
  <1> USE DEF StripesExhausted, WipeInvariant
  <1>1. StripeTypeOK'
    BY GeometryStays DEF StripeTypeOK, arguments
  <1>2. Roles'
    BY CallerOK DEF Roles, StripeTypeOK, arguments
  <1>3. Claims'
    BY GeometryStays DEF Claims, StripeTypeOK
  <1>4. Accounted'
    BY GeometryStays, StripesOK DEF Accounted, StripeTypeOK
  <1>5. Exhausted'
    BY GeometryStays, StripesOK DEF Exhausted, StripeTypeOK
  <1>6. Over'
    BY CallerOK DEF Over, StripeTypeOK, Working
  <1>7. Untouched'
    <2>1. next' \in Nat /\ next <= next'
      BY SMT DEF StripeTypeOK
    <2>2. \A u \in Thread : pc'[u] = "wipe" => pc[u] = "wipe" /\ stripe'[u] = stripe[u]
      BY DEF StripeTypeOK
    <2>3. pc'[Caller] # "returned" => pc[Caller] # "returned"
      BY CallerOK DEF StripeTypeOK
    <2> QED  BY <2>1, <2>2, <2>3, UntouchedStays
  <1> QED  BY <1>1, <1>2, <1>3, <1>4, <1>5, <1>6, <1>7

LEMMA WipeStripeInv == ASSUME WipeInvariant, NEW t \in Thread, WipeStripe(t) PROVE WipeInvariant'
  <1> USE DEF WipeStripe, WipeInvariant
  <1>1. StripeTypeOK'
    BY GeometryStays, StripeInside DEF StripeTypeOK, arguments
  <1>2. Roles'
    BY CallerOK DEF Roles, StripeTypeOK, arguments
  <1>3. Claims'
    BY GeometryStays DEF Claims, StripeTypeOK
  <1>4. Accounted'
    <2> SUFFICES ASSUME NEW i \in Nat, i < next, i < Stripes
                 PROVE  \/ Stripe(i) \subseteq wiped'
                        \/ \E u \in Thread : pc'[u] = "wipe" /\ stripe[u] = i
      BY GeometryStays DEF Accounted
    <2>1. CASE stripe[t] = i
      BY <2>1
    <2>2. CASE stripe[t] # i
      BY <2>2 DEF Accounted, StripeTypeOK
    <2> QED  BY <2>1, <2>2
  <1>5. Exhausted'
    BY GeometryStays DEF Exhausted, StripeTypeOK
  <1>6. Over'
    BY CallerOK DEF Over, StripeTypeOK, Working
  <1>7. Untouched'
    <2>1. pc[Caller] # "returned"
      BY DEF Over, Working
    <2>2. \A i \in Nat : Stripe(i)' = Stripe(i)
      BY GeometryStays
    <2>3. stripe[t] \in Nat /\ stripe[t] < next /\ next \in Nat
      BY DEF Claims, StripeTypeOK
    <2>4. ASSUME NEW i \in Nat, i # stripe[t], Stripe(i) \cap wiped = {}
          PROVE  Stripe(i)' \cap wiped' = {}
      <3>1. Stripe(i) \cap Stripe(stripe[t]) = {}
        BY <2>3, <2>4, StripesDisjoint
      <3> QED  BY <2>2, <2>4, <3>1
    <2>5. ASSUME NEW u \in Thread, NEW i \in Nat, pc'[u] = "wipe", stripe'[u] = i
          PROVE  Stripe(i)' \cap wiped' = {}
      <3>1. u # t /\ pc[u] = "wipe" /\ stripe[u] = i
        BY <2>5 DEF StripeTypeOK
      <3>2. i # stripe[t]
        BY <3>1 DEF Claims
      <3>3. Stripe(i) \cap wiped = {}
        BY <3>1 DEF Untouched
      <3> QED  BY <2>4, <3>2, <3>3
    <2>6. ASSUME NEW i \in Nat, next' <= i
          PROVE  Stripe(i)' \cap wiped' = {}
      <3>1. next <= i
        BY <2>6
      <3>2. i # stripe[t]
        BY <2>3, <3>1, SMT
      <3>3. Stripe(i) \cap wiped = {}
        BY <2>1, <3>1 DEF Untouched
      <3> QED  BY <2>4, <3>2, <3>3
    <2> QED  BY <2>5, <2>6 DEF Untouched
  <1> QED  BY <1>1, <1>2, <1>3, <1>4, <1>5, <1>6, <1>7

\* Nothing is left to claim and nobody holds a stripe: all of them are wiped.
LEMMA JoinInv == ASSUME WipeInvariant, Join PROVE WipeInvariant'
  <1> USE DEF Join, WipeInvariant
  <1>1. StripeTypeOK'
    BY CallerOK, GeometryStays DEF StripeTypeOK, arguments
  <1>2. Roles'
    BY CallerOK DEF Roles, StripeTypeOK, arguments
  <1>3. Claims'
    BY CallerOK, GeometryStays DEF Claims, StripeTypeOK
  <1>4. Accounted'
    BY CallerOK, GeometryStays DEF Accounted, StripeTypeOK
  <1>5. Exhausted'
    BY CallerOK, GeometryStays DEF Exhausted, StripeTypeOK
  <1>6. \A t \in Thread : pc[t] \notin Working
    BY CallerOK DEF Roles, Working, Caller
  <1>7. Region \subseteq wiped
    <2> SUFFICES ASSUME NEW b \in Region PROVE b \in wiped
      OBVIOUS
    <2>1. PICK i \in Nat : i < Stripes /\ b \in Stripe(i)
      BY StripesCover
    <2>2. i < next
      BY <2>1, CallerOK, StripesOK DEF Exhausted, StripeTypeOK
    <2>3. Stripe(i) \subseteq wiped
      BY <1>6, <2>1, <2>2 DEF Accounted, Working
    <2> QED  BY <2>1, <2>3
  <1>8. Over'
    BY <1>6, <1>7, CallerOK, GeometryStays DEF Over, Working, StripeTypeOK
  <1>9. Untouched'
    <2>1. next' \in Nat /\ next <= next'
      BY SMT DEF StripeTypeOK
    <2>2. \A u \in Thread : pc'[u] = "wipe" => pc[u] = "wipe" /\ stripe'[u] = stripe[u]
      BY DEF StripeTypeOK
    <2>3. pc'[Caller] # "returned" => pc[Caller] # "returned"
      BY CallerOK DEF StripeTypeOK
    <2> QED  BY <2>1, <2>2, <2>3, UntouchedStays
  <1> QED  BY <1>1, <1>2, <1>3, <1>4, <1>5, <1>8, <1>9

LEMMA StutterInv == ASSUME WipeInvariant, UNCHANGED stripeVars PROVE WipeInvariant'
  BY GeometryStays
  DEF stripeVars, arguments, WipeInvariant, StripeTypeOK, Roles, Claims, Accounted, Exhausted, Over,
      Untouched

LEMMA InvHolds == StripeSpec => []WipeInvariant
  <1>1. WipeInvariant /\ [StripeNext]_stripeVars => WipeInvariant'
    BY WipeWholeInv, EnterScopeInv, SpawnInv, SpawnLoopEndsInv, ClaimStripeInv,
       StripesExhaustedInv, WipeStripeInv, JoinInv, StutterInv
    DEF StripeNext
  <1> QED  BY <1>1, InitInv, PTL DEF StripeSpec

-----------------------------------------------------------------------------
\* Every byte has been wiped when stripe_over returns, and no thread is still
\* wiping, for a region of any length, any number of workers, any unit, and
\* whichever threads the OS refused.
THEOREM WipeIsComplete == StripeSpec => []WipesEverything
  <1>1. WipeInvariant => WipesEverything
    BY DEF WipeInvariant, Over, WipesEverything, Working
  <1> QED  BY <1>1, InvHolds, PTL

\* Two workers are never in the same unit of memory, none is where another has been, and
\* none leaves the region (the SAFETY argument of stripe_over).
THEOREM WorkersApart == StripeSpec => []StripesApart
  <1>1. ASSUME WipeInvariant PROVE Apart(unit)
    <2> SUFFICES ASSUME NEW t \in Thread, NEW u \in Thread,
                        pc[t] = "wipe", pc[u] = "wipe", t # u,
                        NEW b \in Stripe(stripe[t]), NEW c \in Stripe(stripe[u]),
                        b \div unit = c \div unit
                 PROVE  FALSE
      BY DEF Apart, BlocksOf
    <2>1. stripe[t] \in Nat /\ stripe[u] \in Nat /\ stripe[t] # stripe[u]
      BY <1>1 DEF WipeInvariant, Claims, StripeTypeOK
    <2>2. b \div unit \in Int /\ c \div unit \in Int
      <3>1. b \in Int /\ c \in Int /\ unit \in Nat \ {0}
        BY <1>1, <2>1, PerOK, StripeIs DEF WipeInvariant
      <3> QED  BY <3>1, FloorDivision
    <2>3. CASE stripe[t] < stripe[u]
      BY <1>1, <2>1, <2>2, <2>3, StripesApartInOrder DEF WipeInvariant
    <2>4. CASE stripe[u] < stripe[t]
      BY <1>1, <2>1, <2>2, <2>4, StripesApartInOrder DEF WipeInvariant
    <2> QED  BY <2>1, <2>3, <2>4
  <1>2. ASSUME WipeInvariant, NEW t \in Thread, pc[t] = "wipe"
        PROVE  Stripe(stripe[t]) \subseteq Region \ wiped
    <2>1. stripe[t] \in Nat /\ Stripe(stripe[t]) \cap wiped = {}
      BY <1>2 DEF WipeInvariant, StripeTypeOK, Untouched
    <2>2. Stripe(stripe[t]) \subseteq Region
      BY <1>2, <2>1, StripeInside DEF WipeInvariant
    <2> QED  BY <2>1, <2>2
  <1>3. WipeInvariant => StripesApart
    BY <1>1, <1>2 DEF StripesApart
  <1> QED  BY <1>3, InvHolds, PTL

\* The offset of a claimed stripe lies inside of the region.
THEOREM OffsetsInRegion == StripeSpec => []OffsetInRegion
  <1>1. ASSUME WipeInvariant PROVE OffsetInRegion
    BY <1>1, StripesOK DEF WipeInvariant, Claims, OffsetInRegion, StripeTypeOK
  <1> QED  BY <1>1, InvHolds, PTL

-----------------------------------------------------------------------------
(* OsMemory                                                                 *)

-----------------------------------------------------------------------------
(* Rounding *)

LEMMA Division ==
  ASSUME NEW n \in Nat, NEW p \in Nat \ {0}
  PROVE  /\ n \div p \in Nat /\ n % p \in 0 .. p - 1
         /\ n = (n \div p) * p + (n % p)
  BY SMT

\* A number is a multiple exactly if the remainder is zero.
LEMMA MultipleDivides ==
  ASSUME NEW k \in Nat, NEW p \in Nat \ {0}
  PROVE  (k * p) % p = 0
<1> DEFINE n == k * p
           q == n \div p
<1>1. n \in Nat
  BY SMT
<1>2. q \in Nat /\ n % p \in 0 .. p - 1 /\ n = q * p + (n % p)
  BY <1>1, Division
<1> HIDE DEF q
<1>3. ~ (q + 1 <= k)
  <2> SUFFICES ASSUME q + 1 <= k PROVE FALSE
    OBVIOUS
  <2>1. (q + 1) * p <= k * p
    BY <1>2, ProductMonotone
  <2>2. (q + 1) * p = q * p + p
    BY <1>2, SMT
  <2> QED BY <1>1, <1>2, <2>1, <2>2, SMT
<1>4. ~ (k + 1 <= q)
  <2> SUFFICES ASSUME k + 1 <= q PROVE FALSE
    OBVIOUS
  <2>1. (k + 1) * p <= q * p
    BY <1>2, ProductMonotone
  <2>2. (k + 1) * p = k * p + p
    BY SMT
  <2> QED BY <1>1, <1>2, <2>1, <2>2, SMT
<1>5. q = k
  BY <1>2, <1>3, <1>4, SMT
<1>6. n % p = 0
  <2> DEFINE r == n % p
  <2>1. n = n + r /\ r \in Nat
    BY <1>2, <1>5, SMT
  <2> HIDE DEF n, r
  <2>2. r = 0
    BY <1>1, <2>1, SMT
  <2> QED BY <2>2 DEF r
<1> QED BY <1>6

LEMMA RoundUpIs ==
  ASSUME NEW n \in Nat, NEW p \in Nat \ {0}
  PROVE  /\ RoundUp(n, p) \in Nat
         /\ n <= RoundUp(n, p) /\ RoundUp(n, p) < n + p
         /\ RoundUp(n, p) % p = 0
         /\ n % p = 0 => RoundUp(n, p) = n
<1> DEFINE m == n + p - 1
           q == m \div p
<1>1. m \in Nat /\ q \in Nat /\ m % p \in 0 .. p - 1 /\ m = q * p + (m % p)
  BY Division, SMT
<1>2. RoundUp(n, p) = q * p /\ (q * p) % p = 0
  BY <1>1, MultipleDivides DEF RoundUp
<1>3. q * p \in Nat /\ n <= q * p /\ q * p < n + p
  BY <1>1, SMT
<1>4. ASSUME n % p = 0 PROVE q * p = n
  <2> DEFINE k == n \div p
  <2>1. k \in Nat /\ n = k * p
    BY <1>4, Division, SMT
  <2> HIDE DEF k, q
  <2>2. ~ (k + 1 <= q)
    <3> SUFFICES ASSUME k + 1 <= q PROVE FALSE
      OBVIOUS
    <3>1. (k + 1) * p <= q * p
      BY <1>1, <2>1, ProductMonotone
    <3>2. (k + 1) * p = k * p + p
      BY <2>1, SMT
    <3> QED BY <1>3, <2>1, <3>1, <3>2, SMT
  <2>3. ~ (q + 1 <= k)
    <3> SUFFICES ASSUME q + 1 <= k PROVE FALSE
      OBVIOUS
    <3>1. (q + 1) * p <= k * p
      BY <1>1, <2>1, ProductMonotone
    <3>2. (q + 1) * p = q * p + p
      BY <1>1, SMT
    <3> QED BY <1>3, <2>1, <3>1, <3>2, SMT
  <2> QED BY <1>1, <2>1, <2>2, <2>3, SMT
<1> QED BY <1>2, <1>3, <1>4

LEMMA MultiplesAdd ==
  ASSUME NEW p \in Nat \ {0}, NEW a \in Nat, NEW b \in Nat, a % p = 0, b % p = 0
  PROVE  /\ (a + b) % p = 0
         /\ b <= a => (a - b) % p = 0
<1> DEFINE i == a \div p
           j == b \div p
<1>1. i \in Nat /\ j \in Nat /\ a = i * p /\ b = j * p
  BY Division, SMT
<1> HIDE DEF i, j
<1>2. (i + j) * p = a + b
  BY <1>1, SMT
<1>3. (a + b) % p = 0
  <2>1. i + j \in Nat
    BY <1>1
  <2>2. ((i + j) * p) % p = 0
    BY <2>1, MultipleDivides
  <2> QED BY <1>2, <2>2
<1>4. ASSUME b <= a PROVE (a - b) % p = 0
  <2>1. j <= i
    <3> SUFFICES ASSUME i + 1 <= j PROVE FALSE
      BY <1>1, SMT
    <3>1. (i + 1) * p <= j * p
      BY <1>1, ProductMonotone
    <3>2. (i + 1) * p = i * p + p
      BY <1>1, SMT
    <3> QED BY <1>1, <1>4, <3>1, <3>2, SMT
  <2>2. i - j \in Nat
    BY <1>1, <2>1, SMT
  <2>3. (i - j) * p = a - b
    BY <1>1, SMT
  <2>4. ((i - j) * p) % p = 0
    BY <2>2, MultipleDivides
  <2> QED BY <2>3, <2>4
<1> QED BY <1>3, <1>4

\* Huge pages consist of whole pages.
LEMMA HugeIsPages ==
  ASSUME NEW n \in Nat, n % HugePage = 0
  PROVE  n % PageSize = 0
<1> DEFINE i == n \div HugePage
           j == HugePage \div PageSize
<1>1. i \in Nat /\ n = i * HugePage
  BY OsMemoryAssumption, Division, SMT
<1>2. j \in Nat /\ HugePage = j * PageSize
  BY OsMemoryAssumption, Division, SMT
<1> HIDE DEF i, j
<1>3. i * j \in Nat /\ n = (i * j) * PageSize
  BY <1>1, <1>2, OsMemoryAssumption, SMT
<1>4. ((i * j) * PageSize) % PageSize = 0
  BY <1>3, OsMemoryAssumption, MultipleDivides
<1> QED BY <1>3, <1>4

-----------------------------------------------------------------------------
(* The invariant *)

MemoryTypes ==
  /\ mapper \in [Addresses -> Threads \cup {Nobody}]
  /\ step \in [Threads -> {"idle", "map", "trim head", "trim tail", "advise", "mapped",
                          "unmap", "heap", "heap arena", "dealloc"}]
  /\ blocks \in [Threads -> Nat]
  /\ raw \in [Threads -> Nat]
  /\ base \in [Threads -> Nat]
  /\ leaks \in [Threads -> Nat]

\* What a thread must have mapped where it is, and all of it if no unmap failed.
Holding(t) ==
  CASE step[t] = "trim head" -> Stretch(raw[t], OverLen(t))
    [] step[t] = "trim tail" -> Stretch(base[t], MappedLen(t) + TailLength(t))
    [] step[t] \in {"advise", "mapped", "unmap"} -> Stretch(base[t], MappedLen(t))
    [] OTHER -> {}

HoldsIt ==
  \A t \in Threads :
    /\ Holding(t) \subseteq MappedBy(t)
    /\ leaks[t] = 0 => MappedBy(t) \subseteq Holding(t)

\* A mapping begins on a page, and an arena where the head ends.
BasesAligned ==
  \A t \in Threads :
    /\ step[t] \in {"trim head", "trim tail", "advise", "mapped", "unmap"} =>
         raw[t] % PageSize = 0
    /\ Aligned(t) => base[t] = raw[t] + HeadLength(t)

MemoryInvariant == MemoryTypes /\ HoldsIt /\ BasesAligned

\* The pieces of a mapping are whole pages.
LEMMA PiecesArePages ==
  ASSUME MemoryTypes, NEW t \in Threads, raw[t] % PageSize = 0
  PROVE  /\ HeadLength(t) \in Nat /\ HeadLength(t) < HugePage
         /\ TailLength(t) \in Nat \ {0}
         /\ MappedLen(t) \in Nat /\ blocks[t] <= MappedLen(t)
         /\ HeadLength(t) + MappedLen(t) + TailLength(t) = OverLen(t)
         /\ RoundUp(HeadLength(t), PageSize) = HeadLength(t)
         /\ RoundUp(TailLength(t), PageSize) = TailLength(t)
         /\ RoundUp(MappedLen(t), PageSize) = MappedLen(t)
         /\ (raw[t] + HeadLength(t)) % HugePage = 0
         /\ (raw[t] + HeadLength(t)) % PageSize = 0
         /\ (raw[t] + HeadLength(t) + MappedLen(t)) % PageSize = 0
<1> DEFINE r == raw[t]
           up == RoundUp(r, HugePage)
           whole == MappedLen(t)
           head == HeadLength(t)
           tail == TailLength(t)
<1>1. r \in Nat /\ blocks[t] \in Nat
      /\ PageSize \in Nat \ {0} /\ HugePage \in Nat \ {0}
  BY OsMemoryAssumption DEF MemoryTypes
<1>2. up \in Nat /\ r <= up /\ up < r + HugePage /\ up % HugePage = 0
  BY <1>1, RoundUpIs
<1>3. up % PageSize = 0
  BY <1>2, HugeIsPages
<1>4. head = up - r /\ tail = HugePage - head
  BY DEF HeadLength, TailLength
<1>5. whole \in Nat /\ blocks[t] <= whole /\ whole % PageSize = 0 /\ RoundUp(whole, PageSize) = whole
  BY <1>1, RoundUpIs DEF MappedLen
<1>6. OverLen(t) = whole + HugePage
  BY DEF OverLen
<1> HIDE DEF r, up, whole, head, tail
<1>7. head \in Nat /\ head < HugePage /\ tail \in Nat \ {0} /\ r + head = up
      /\ head + whole + tail = OverLen(t)
  BY <1>1, <1>2, <1>4, <1>5, <1>6, SMT
<1>8. head % PageSize = 0
  BY <1>1, <1>2, <1>3, <1>4, MultiplesAdd DEF r
<1>9. tail % PageSize = 0
  BY <1>1, <1>4, <1>7, <1>8, OsMemoryAssumption, MultiplesAdd
<1>10. (up + whole) % PageSize = 0
  BY <1>1, <1>2, <1>3, <1>5, MultiplesAdd
<1>11. RoundUp(head, PageSize) = head /\ RoundUp(tail, PageSize) = tail
  BY <1>1, <1>7, <1>8, <1>9, RoundUpIs
<1> QED BY <1>2, <1>3, <1>5, <1>7, <1>10, <1>11 DEF r, whole, head, tail

LEMMA OneMore ==
  ASSUME NEW k \in Nat
  PROVE  k + 1 \in Nat /\ k + 1 # 0
  BY SMT

\* An unmap of pages of one's own leaves the others what they have.
LEMMA UnmapKeeps ==
  ASSUME MemoryTypes, HoldsIt, NEW t \in Threads, NEW from \in Nat, NEW length, NEW to,
         Unmaps(t, from, length, to),
         from % PageSize = 0,
         to \in {"idle", "trim tail", "advise"},
         Stretch(from, RoundUp(length, PageSize)) \subseteq Holding(t),
         Holding(t)' = Holding(t) \ Stretch(from, RoundUp(length, PageSize)),
         \A u \in Threads \ {t} : Holding(u)' = Holding(u)
  PROVE  /\ HoldsIt'
         /\ mapper' \in [Addresses -> Threads \cup {Nobody}]
         /\ leaks' \in [Threads -> Nat]
<1> DEFINE cut == Stretch(from, RoundUp(length, PageSize))
<1>1. CASE /\ mapper' = [a \in Addresses |-> IF a \in cut THEN Nobody ELSE mapper[a]]
           /\ leaks' = leaks
  <2>1. MappedBy(t)' = MappedBy(t) \ cut
    BY <1>1, OsMemoryAssumption DEF MappedBy, MemoryTypes
  <2>2. ASSUME NEW u \in Threads \ {t}
        PROVE  MappedBy(u)' = MappedBy(u)
    <3>1. cut \subseteq MappedBy(t)
      BY DEF HoldsIt
    <3>2. u # t /\ u # Nobody /\ t # u
      BY OsMemoryAssumption
    <3>3. ASSUME NEW a \in Addresses
          PROVE  mapper'[a] = u <=> mapper[a] = u
      <4> HIDE DEF cut
      <4>1. CASE a \in cut
        <5>1. mapper[a] = t /\ mapper'[a] = Nobody
          BY <1>1, <3>1, <4>1 DEF MappedBy
        <5> QED BY <3>2, <5>1
      <4>2. CASE a \notin cut
        BY <1>1, <4>2
      <4> QED BY <4>1, <4>2
    <3> QED BY <3>3 DEF MappedBy
  <2>3. HoldsIt'
    <3> SUFFICES ASSUME NEW u \in Threads
        PROVE  /\ Holding(u)' \subseteq MappedBy(u)'
               /\ leaks'[u] = 0 => MappedBy(u)' \subseteq Holding(u)'
      BY DEF HoldsIt
    <3>1. CASE u = t
      BY <1>1, <2>1, <3>1 DEF HoldsIt
    <3>2. CASE u # t
      BY <1>1, <2>2, <3>2 DEF HoldsIt
    <3> QED BY <3>1, <3>2
  <2> QED BY <1>1, <2>3 DEF MemoryTypes
<1>2. CASE mapper' = mapper /\ leaks' = [leaks EXCEPT ![t] = @ + 1]
  <2>1. leaks' \in [Threads -> Nat] /\ leaks'[t] # 0
    <3> DEFINE more == leaks[t] + 1
    <3>1. more \in Nat /\ more # 0 /\ leaks \in [Threads -> Nat]
      <4>1. leaks \in [Threads -> Nat] /\ leaks[t] \in Nat
        BY DEF MemoryTypes
      <4> QED BY <4>1, OneMore
    <3>2. leaks' = [leaks EXCEPT ![t] = more]
      BY <1>2
    <3> HIDE DEF more
    <3> QED BY <3>1, <3>2
  <2>2. HoldsIt'
    <3> SUFFICES ASSUME NEW u \in Threads
        PROVE  /\ Holding(u)' \subseteq MappedBy(u)'
               /\ leaks'[u] = 0 => MappedBy(u)' \subseteq Holding(u)'
      BY DEF HoldsIt
    <3>1. MappedBy(u)' = MappedBy(u)
      BY <1>2 DEF MappedBy
    <3>2. CASE u = t
      BY <2>1, <3>1, <3>2 DEF HoldsIt
    <3>3. CASE u # t
      BY <1>2, <3>1, <3>3 DEF HoldsIt, MemoryTypes
    <3> QED BY <3>2, <3>3
  <2> QED BY <1>2, <2>1, <2>2 DEF MemoryTypes
<1> QED BY <1>1, <1>2 DEF Unmaps

-----------------------------------------------------------------------------
(* The initial state and the steps *)

LEMMA MemoryStarts == MemoryInit => MemoryInvariant
<1> SUFFICES ASSUME MemoryInit PROVE MemoryInvariant
  OBVIOUS
<1>1. MemoryTypes
  BY DEF MemoryInit, MemoryTypes
<1>2. HoldsIt
  BY OsMemoryAssumption DEF MemoryInit, HoldsIt, Holding, MappedBy
<1>3. BasesAligned
  BY DEF MemoryInit, BasesAligned, Aligned
<1> QED BY <1>1, <1>2, <1>3 DEF MemoryInvariant

\* The others are where they were.
Stays(u) ==
  /\ step'[u] = step[u] /\ blocks'[u] = blocks[u]
  /\ raw'[u] = raw[u] /\ base'[u] = base[u]

LEMMA StaysHolding ==
  ASSUME NEW u \in Threads, Stays(u)
  PROVE  Holding(u)' = Holding(u)
  BY DEF Stays, Holding, Stretch, OverLen, MappedLen, TailLength, HeadLength

LEMMA StaysAligned ==
  ASSUME NEW t \in Threads, BasesAligned, \A u \in Threads \ {t} : Stays(u),
         /\ step'[t] \in {"trim head", "trim tail", "advise", "mapped", "unmap"} =>
              raw'[t] % PageSize = 0
         /\ Aligned(t)' => base'[t] = raw'[t] + HeadLength(t)'
  PROVE  BasesAligned'
<1> SUFFICES ASSUME NEW u \in Threads, u # t
    PROVE  /\ step'[u] \in {"trim head", "trim tail", "advise", "mapped", "unmap"} =>
                raw'[u] % PageSize = 0
           /\ Aligned(u)' => base'[u] = raw'[u] + HeadLength(u)'
  BY DEF BasesAligned
<1>1. HeadLength(u)' = HeadLength(u)
  BY DEF Stays, HeadLength
<1> QED BY <1>1 DEF Stays, BasesAligned, Aligned

\* A step that maps and unmaps nothing, and of which the thread holds what it held.
LEMMA QuietStep ==
  ASSUME NEW t \in Threads, HoldsIt, mapper' = mapper, leaks' = leaks,
         \A u \in Threads \ {t} : Stays(u),
         Holding(t)' = Holding(t)
  PROVE  HoldsIt'
<1>1. ASSUME NEW u \in Threads PROVE Holding(u)' = Holding(u)
  BY StaysHolding
<1> QED BY <1>1 DEF HoldsIt, MappedBy

LEMMA AskStep ==
  ASSUME MemoryInvariant, NEW t \in Threads, Ask(t) \/ MapRefused(t) \/ HeapAllocate(t)
           \/ (Wipe(t) /\ step[t] = "heap arena") \/ Dealloc(t)
  PROVE  MemoryInvariant'
<1> USE DEF MemoryInvariant
<1>1. /\ mapper' = mapper /\ leaks' = leaks
      /\ step[t] \in {"idle", "map", "heap", "heap arena", "dealloc"}
      /\ step'[t] \in {"idle", "map", "heap", "heap arena", "dealloc"}
  BY DEF Ask, MapRefused, HeapAllocate, Wipe, Dealloc, GoesOn, Forget, MemoryTypes
<1>2. MemoryTypes'
  <2>1. CASE Ask(t)
    <3>1. PICK n \in Sizes :
            /\ blocks' = [blocks EXCEPT ![t] = n]
            /\ step' = [step EXCEPT ![t] = IF n >= HugePage THEN "map" ELSE "heap"]
            /\ raw' = raw /\ base' = base
      BY <2>1 DEF Ask, GoesOn
    <3>2. n \in Nat
      BY OsMemoryAssumption
    <3> QED BY <1>1, <3>1, <3>2 DEF MemoryTypes
  <2>2. CASE MapRefused(t)
    BY <1>1, <2>2 DEF MapRefused, GoesOn, MemoryTypes
  <2>3. CASE HeapAllocate(t)
    <3>1. CASE GoesOn(t, "heap arena") /\ UNCHANGED <<blocks, raw, base>>
      BY <1>1, <3>1 DEF GoesOn, MemoryTypes
    <3>2. CASE GoesOn(t, "idle") /\ Forget(t)
      BY <1>1, <3>2 DEF GoesOn, Forget, MemoryTypes
    <3> QED BY <2>3, <3>1, <3>2 DEF HeapAllocate
  <2>4. CASE Wipe(t) /\ step[t] = "heap arena"
    BY <1>1, <2>4 DEF Wipe, GoesOn, MemoryTypes
  <2>5. CASE Dealloc(t)
    BY <1>1, <2>5 DEF Dealloc, GoesOn, Forget, MemoryTypes
  <2> QED BY <2>1, <2>2, <2>3, <2>4, <2>5
<1>3. \A u \in Threads \ {t} : Stays(u)
  BY DEF Ask, MapRefused, HeapAllocate, Wipe, Dealloc, GoesOn, Forget, MemoryTypes, Stays
<1>4. Holding(t)' = {} /\ Holding(t) = {}
  BY <1>1 DEF Holding
<1>5. HoldsIt'
  BY <1>1, <1>3, <1>4, QuietStep
<1>6. BasesAligned'
  BY <1>1, <1>3, StaysAligned DEF Aligned
<1> QED BY <1>2, <1>5, <1>6

LEMMA MapStep ==
  ASSUME MemoryInvariant, NEW t \in Threads, Map(t)
  PROVE  MemoryInvariant'
<1> USE DEF MemoryInvariant
<1>1. PICK r \in Addresses :
        /\ r % PageSize = 0
        /\ Stretch(r, OverLen(t)) \subseteq Addresses
        /\ \A a \in Stretch(r, OverLen(t)) : mapper[a] = Nobody
        /\ raw' = [raw EXCEPT ![t] = r]
        /\ mapper' = [a \in Addresses |-> IF a \in Stretch(r, OverLen(t)) THEN t ELSE mapper[a]]
  BY DEF Map
<1>2. /\ step[t] = "map" /\ step' = [step EXCEPT ![t] = "trim head"]
      /\ blocks' = blocks /\ base' = base /\ leaks' = leaks
  BY DEF Map, GoesOn
<1>3. MemoryTypes'
  <2>1. r \in Nat
    BY OsMemoryAssumption DEF Addresses
  <2>2. mapper' \in [Addresses -> Threads \cup {Nobody}]
    BY <1>1 DEF MemoryTypes
  <2>3. raw' \in [Threads -> Nat]
    BY <1>1, <2>1 DEF MemoryTypes
  <2>4. step' \in [Threads -> {"idle", "map", "trim head", "trim tail", "advise", "mapped",
                              "unmap", "heap", "heap arena", "dealloc"}]
    BY <1>2 DEF MemoryTypes
  <2> QED BY <1>2, <2>2, <2>3, <2>4 DEF MemoryTypes
<1>4. \A u \in Threads \ {t} : Stays(u)
  BY <1>1, <1>2 DEF Stays, MemoryTypes
<1>5. step'[t] = "trim head" /\ raw'[t] = r
  BY <1>1, <1>2 DEF MemoryTypes
<1> DEFINE new == Stretch(r, OverLen(t))
<1>6. Holding(t)' = new /\ Holding(t) = {}
  BY <1>2, <1>5 DEF Holding, Stretch, OverLen, MappedLen
<1>7. HoldsIt'
  <2> SUFFICES ASSUME NEW u \in Threads
      PROVE  /\ Holding(u)' \subseteq MappedBy(u)'
             /\ leaks'[u] = 0 => MappedBy(u)' \subseteq Holding(u)'
    BY DEF HoldsIt
  <2> HIDE DEF new
  <2>1. CASE u = t
    <3>1. MappedBy(t)' = MappedBy(t) \cup new
      BY <1>1 DEF MappedBy, new
    <3> QED BY <1>2, <1>6, <2>1, <3>1 DEF HoldsIt
  <2>2. CASE u # t
    <3>1. u # Nobody
      BY OsMemoryAssumption
    <3>2. ASSUME NEW a \in Addresses
          PROVE  mapper'[a] = u <=> mapper[a] = u
      BY <1>1, <2>2, <3>1
    <3>3. MappedBy(u)' = MappedBy(u)
      BY <3>2 DEF MappedBy
    <3>4. Holding(u)' = Holding(u)
      BY <1>4, <2>2, StaysHolding
    <3> QED BY <1>2, <3>3, <3>4 DEF HoldsIt
  <2> QED BY <2>1, <2>2
<1>8. BasesAligned'
  BY <1>1, <1>4, <1>5, StaysAligned DEF Aligned
<1> QED BY <1>3, <1>7, <1>8

\* An aligned arena stays where it is while its step changes.
LEMMA PlaceStays ==
  ASSUME NEW t \in Threads, blocks'[t] = blocks[t], raw'[t] = raw[t]
  PROVE  /\ HeadLength(t)' = HeadLength(t)
         /\ TailLength(t)' = TailLength(t)
         /\ MappedLen(t)' = MappedLen(t)
  BY DEF HeadLength, TailLength, MappedLen

LEMMA TrimHeadStep ==
  ASSUME MemoryInvariant, NEW t \in Threads, TrimHead(t)
  PROVE  MemoryInvariant'
<1> USE DEF MemoryInvariant
<1> DEFINE at == raw[t] + HeadLength(t)
           rest == MappedLen(t) + TailLength(t)
<1>1. /\ step[t] = "trim head" /\ step' = [step EXCEPT ![t] = "trim tail"]
      /\ base' = [base EXCEPT ![t] = at] /\ blocks' = blocks /\ raw' = raw
  BY DEF TrimHead, GoesOn, Unmaps
<1>2. raw[t] % PageSize = 0 /\ raw[t] \in Nat
  BY <1>1 DEF BasesAligned, MemoryTypes
<1>3. /\ HeadLength(t) \in Nat /\ TailLength(t) \in Nat /\ MappedLen(t) \in Nat
      /\ HeadLength(t) + MappedLen(t) + TailLength(t) = OverLen(t)
      /\ RoundUp(HeadLength(t), PageSize) = HeadLength(t)
  BY <1>2, PiecesArePages
<1>4. at \in Nat
  BY <1>2, <1>3
<1>5. /\ step' \in [Threads -> {"idle", "map", "trim head", "trim tail", "advise", "mapped",
                              "unmap", "heap", "heap arena", "dealloc"}]
      /\ base' \in [Threads -> Nat]
      /\ blocks' \in [Threads -> Nat]
      /\ raw' \in [Threads -> Nat]
  BY <1>1, <1>4 DEF MemoryTypes
<1>6. step'[t] = "trim tail" /\ base'[t] = at /\ raw'[t] = raw[t] /\ blocks'[t] = blocks[t]
  BY <1>1 DEF MemoryTypes
<1>7. \A u \in Threads \ {t} : Stays(u)
  BY <1>1 DEF Stays, MemoryTypes
<1>8. Holding(t) = Stretch(raw[t], OverLen(t)) /\ Holding(t)' = Stretch(at, rest)
  <2>1. Holding(t)' = Stretch(base[t], rest)'
    BY <1>6 DEF Holding
  <2>2. Stretch(base[t], rest)' = Stretch(at, rest)
    BY <1>6, PlaceStays DEF Stretch
  <2> QED BY <1>1, <2>1, <2>2 DEF Holding
<1>9. HoldsIt' /\ mapper' \in [Addresses -> Threads \cup {Nobody}] /\ leaks' \in [Threads -> Nat]
  <2>1. CASE HeadLength(t) = 0
    <3>1. mapper' = mapper /\ leaks' = leaks
      BY <2>1 DEF TrimHead
    <3>2. at = raw[t] /\ rest = OverLen(t)
      BY <1>2, <1>3, <2>1, SMT
    <3>3. Holding(t)' = Holding(t)
      BY <1>8, <3>2
    <3>4. HoldsIt'
      BY <1>7, <3>1, <3>3, QuietStep
    <3> QED BY <3>1, <3>4 DEF MemoryTypes
  <2>2. CASE HeadLength(t) # 0
    <3> DEFINE cut == Stretch(raw[t], RoundUp(HeadLength(t), PageSize))
    <3>1. Unmaps(t, raw[t], HeadLength(t), "trim tail")
      BY <2>2 DEF TrimHead
    <3>2. cut = Stretch(raw[t], HeadLength(t))
      BY <1>3
    <3>3. cut \subseteq Holding(t) /\ Holding(t)' = Holding(t) \ cut
      <4> DEFINE r == raw[t]
                 h == HeadLength(t)
                 m == MappedLen(t)
                 w == TailLength(t)
                 o == OverLen(t)
      <4>1. r \in Nat /\ h \in Nat /\ m \in Nat /\ w \in Nat /\ h + m + w = o
        BY <1>2, <1>3
      <4> HIDE DEF r, h, m, w, o
      <4>2. /\ r .. r + h - 1 \subseteq r .. r + o - 1
            /\ (r + h) .. (r + h) + (m + w) - 1 = (r .. r + o - 1) \ (r .. r + h - 1)
        BY <4>1, SMT
      <4> QED BY <1>8, <3>2, <4>2 DEF Stretch, r, h, m, w, o
    <3>4. \A u \in Threads \ {t} : Holding(u)' = Holding(u)
      BY <1>7, StaysHolding
    <3> HIDE DEF cut
    <3> QED BY <1>2, <3>1, <3>3, <3>4, UnmapKeeps DEF cut
  <2> QED BY <2>1, <2>2
<1>10. BasesAligned'
  <2>1. HeadLength(t)' = HeadLength(t)
    BY <1>6, PlaceStays
  <2> QED BY <1>2, <1>6, <1>7, <2>1, StaysAligned
<1> QED BY <1>5, <1>9, <1>10 DEF MemoryTypes

LEMMA TrimTailStep ==
  ASSUME MemoryInvariant, NEW t \in Threads, TrimTail(t)
  PROVE  MemoryInvariant'
<1> USE DEF MemoryInvariant
<1> DEFINE from == base[t] + MappedLen(t)
           cut == Stretch(from, RoundUp(TailLength(t), PageSize))
<1>1. /\ step[t] = "trim tail" /\ step' = [step EXCEPT ![t] = "advise"]
      /\ base' = base /\ blocks' = blocks /\ raw' = raw
      /\ Unmaps(t, from, TailLength(t), "advise")
  BY DEF TrimTail, GoesOn, Unmaps
<1>2. /\ raw[t] % PageSize = 0 /\ raw[t] \in Nat /\ base[t] \in Nat
      /\ base[t] = raw[t] + HeadLength(t)
  BY <1>1 DEF BasesAligned, MemoryTypes, Aligned
<1>3. /\ TailLength(t) \in Nat /\ MappedLen(t) \in Nat
      /\ RoundUp(TailLength(t), PageSize) = TailLength(t)
      /\ from % PageSize = 0
  BY <1>2, PiecesArePages
<1>4. from \in Nat
  BY <1>2, <1>3
<1>5. step' \in [Threads -> {"idle", "map", "trim head", "trim tail", "advise", "mapped",
                           "unmap", "heap", "heap arena", "dealloc"}]
  BY <1>1 DEF MemoryTypes
<1>6. step'[t] = "advise" /\ base'[t] = base[t] /\ raw'[t] = raw[t] /\ blocks'[t] = blocks[t]
  BY <1>1 DEF MemoryTypes
<1>7. \A u \in Threads \ {t} : Stays(u)
  BY <1>1 DEF Stays, MemoryTypes
<1>8. /\ Holding(t) = Stretch(base[t], MappedLen(t) + TailLength(t))
      /\ Holding(t)' = Stretch(base[t], MappedLen(t))
  <2>1. Holding(t)' = Stretch(base[t], MappedLen(t))'
    BY <1>6 DEF Holding
  <2>2. Stretch(base[t], MappedLen(t))' = Stretch(base[t], MappedLen(t))
    BY <1>6, PlaceStays DEF Stretch
  <2> QED BY <1>1, <2>1, <2>2 DEF Holding
<1>9. HoldsIt' /\ mapper' \in [Addresses -> Threads \cup {Nobody}] /\ leaks' \in [Threads -> Nat]
  <2>1. cut \subseteq Holding(t) /\ Holding(t)' = Holding(t) \ cut
    <3> DEFINE b == base[t]
               m == MappedLen(t)
               w == TailLength(t)
    <3>1. b \in Nat /\ m \in Nat /\ w \in Nat
      BY <1>2, <1>3
    <3>2. cut = Stretch(b + m, w)
      BY <1>3
    <3> HIDE DEF b, m, w, cut
    <3>3. /\ (b + m) .. (b + m) + w - 1 \subseteq b .. b + (m + w) - 1
          /\ b .. b + m - 1 = (b .. b + (m + w) - 1) \ ((b + m) .. (b + m) + w - 1)
      BY <3>1, SMT
    <3> QED BY <1>8, <3>2, <3>3 DEF Stretch, b, m, w
  <2>2. \A u \in Threads \ {t} : Holding(u)' = Holding(u)
    BY <1>7, StaysHolding
  <2> HIDE DEF from
  <2> QED BY <1>1, <1>3, <1>4, <2>1, <2>2, UnmapKeeps
<1>10. BasesAligned'
  <2>1. HeadLength(t)' = HeadLength(t)
    BY <1>6, PlaceStays
  <2> QED BY <1>2, <1>6, <1>7, <2>1, StaysAligned
<1> QED BY <1>1, <1>5, <1>9, <1>10 DEF MemoryTypes

LEMMA AdviseStep ==
  ASSUME MemoryInvariant, NEW t \in Threads,
         Advise(t) \/ (Wipe(t) /\ step[t] = "mapped")
  PROVE  MemoryInvariant'
<1> USE DEF MemoryInvariant
<1>1. /\ mapper' = mapper /\ leaks' = leaks /\ blocks' = blocks /\ raw' = raw /\ base' = base
      /\ step[t] \in {"advise", "mapped"} /\ step'[t] \in {"mapped", "unmap"}
      /\ step' \in [Threads -> {"idle", "map", "trim head", "trim tail", "advise", "mapped",
                              "unmap", "heap", "heap arena", "dealloc"}]
      /\ \A u \in Threads \ {t} : step'[u] = step[u]
  BY DEF Advise, Wipe, GoesOn, MemoryTypes
<1>2. \A u \in Threads \ {t} : Stays(u)
  BY <1>1 DEF Stays
<1>3. Holding(t)' = Holding(t)
  <2>1. Holding(t)' = Stretch(base[t], MappedLen(t))'
    BY <1>1 DEF Holding
  <2>2. Stretch(base[t], MappedLen(t))' = Stretch(base[t], MappedLen(t))
    BY <1>1, PlaceStays DEF Stretch
  <2> QED BY <1>1, <2>1, <2>2 DEF Holding
<1>4. HoldsIt'
  BY <1>1, <1>2, <1>3, QuietStep
<1>5. raw[t] % PageSize = 0 /\ base[t] = raw[t] + HeadLength(t)
  BY <1>1 DEF BasesAligned, Aligned
<1>6. HeadLength(t)' = HeadLength(t)
  BY <1>1, PlaceStays
<1>7. BasesAligned'
  BY <1>1, <1>2, <1>5, <1>6, StaysAligned
<1> QED BY <1>1, <1>4, <1>7 DEF MemoryTypes

LEMMA UnmapStep ==
  ASSUME MemoryInvariant, NEW t \in Threads, Unmap(t)
  PROVE  MemoryInvariant'
<1> USE DEF MemoryInvariant
<1>1. /\ step[t] = "unmap" /\ step' = [step EXCEPT ![t] = "idle"]
      /\ blocks' = [blocks EXCEPT ![t] = 0]
      /\ raw' = [raw EXCEPT ![t] = 0]
      /\ base' = [base EXCEPT ![t] = 0]
      /\ Unmaps(t, base[t], MappedLen(t), "idle")
  BY DEF Unmap, Unmaps, GoesOn, Forget
<1>2. /\ raw[t] % PageSize = 0 /\ base[t] \in Nat
      /\ base[t] = raw[t] + HeadLength(t)
  BY <1>1 DEF BasesAligned, MemoryTypes, Aligned
<1>3. RoundUp(MappedLen(t), PageSize) = MappedLen(t) /\ base[t] % PageSize = 0
  BY <1>2, PiecesArePages
<1>4. /\ step' \in [Threads -> {"idle", "map", "trim head", "trim tail", "advise", "mapped",
                              "unmap", "heap", "heap arena", "dealloc"}]
      /\ blocks' \in [Threads -> Nat]
      /\ raw' \in [Threads -> Nat]
      /\ base' \in [Threads -> Nat]
  BY <1>1 DEF MemoryTypes
<1>5. step'[t] = "idle"
  BY <1>1 DEF MemoryTypes
<1>6. \A u \in Threads \ {t} : Stays(u)
  BY <1>1 DEF Stays, MemoryTypes
<1>7. Holding(t) = Stretch(base[t], MappedLen(t)) /\ Holding(t)' = {}
  BY <1>1, <1>5 DEF Holding
<1>8. HoldsIt' /\ mapper' \in [Addresses -> Threads \cup {Nobody}] /\ leaks' \in [Threads -> Nat]
  <2> DEFINE cut == Stretch(base[t], RoundUp(MappedLen(t), PageSize))
  <2>1. cut \subseteq Holding(t) /\ Holding(t)' = Holding(t) \ cut
    BY <1>3, <1>7
  <2>2. \A u \in Threads \ {t} : Holding(u)' = Holding(u)
    BY <1>6, StaysHolding
  <2> QED BY <1>1, <1>2, <1>3, <2>1, <2>2, UnmapKeeps
<1>9. BasesAligned'
  BY <1>5, <1>6, StaysAligned DEF Aligned
<1> QED BY <1>4, <1>8, <1>9 DEF MemoryTypes

-----------------------------------------------------------------------------
(* The theorems *)

\* Each thread has mapped what it must hold where it is in Arena::new or in the
\* drop, and while no munmap of its own failed, nothing else.
THEOREM MemoryInductive == MemorySpec => []MemoryInvariant
<1>1. MemoryInit => MemoryInvariant
  BY MemoryStarts
<1>2. MemoryInvariant /\ [MemoryNext]_memoryVars => MemoryInvariant'
  <2> SUFFICES ASSUME MemoryInvariant, [MemoryNext]_memoryVars PROVE MemoryInvariant'
    OBVIOUS
  <2>1. CASE UNCHANGED memoryVars
    <3>1. \A t \in Threads : Stays(t)
      BY <2>1 DEF memoryVars, Stays
    <3>2. \A t \in Threads : Holding(t)' = Holding(t) /\ HeadLength(t)' = HeadLength(t)
      BY <3>1, StaysHolding DEF Stays, HeadLength
    <3>3. MemoryTypes'
      BY <2>1 DEF memoryVars, MemoryInvariant, MemoryTypes
    <3>4. HoldsIt'
      BY <2>1, <3>2 DEF memoryVars, MemoryInvariant, HoldsIt, MappedBy
    <3>5. BasesAligned'
      BY <2>1, <3>2 DEF memoryVars, MemoryInvariant, BasesAligned, Aligned
    <3> QED BY <3>3, <3>4, <3>5 DEF MemoryInvariant
  <2>2. ASSUME NEW t \in Threads,
               \/ Ask(t) \/ Map(t) \/ MapRefused(t) \/ TrimHead(t) \/ TrimTail(t) \/ Advise(t)
               \/ HeapAllocate(t)
               \/ Wipe(t) \/ Unmap(t) \/ Dealloc(t)
        PROVE  MemoryInvariant'
    <3>1. Wipe(t) => step[t] = "mapped" \/ step[t] = "heap arena"
      BY DEF Wipe
    <3> QED BY <2>2, <3>1, AskStep, MapStep, TrimHeadStep, TrimTailStep, AdviseStep, UnmapStep
  <2> QED BY <2>1, <2>2 DEF MemoryNext
<1> QED BY <1>1, <1>2, PTL DEF MemorySpec

\* For any number of threads and any sizes: from alignment to its own unmap an
\* arena begins on a huge page and every block of it is mapped by its thread, even
\* if munmaps fail.
THEOREM ArenaStaysWhole == MemorySpec => []ArenaStaysMapped
<1>1. MemoryInvariant => ArenaStaysMapped
  <2> SUFFICES ASSUME MemoryInvariant, NEW t \in Threads, Aligned(t)
      PROVE  /\ base[t] % HugePage = 0
             /\ Stretch(base[t], blocks[t]) \subseteq MappedBy(t)
    BY DEF ArenaStaysMapped, MappedBy
  <2>1. MemoryTypes /\ HoldsIt /\ BasesAligned
    BY DEF MemoryInvariant
  <2>2. raw[t] % PageSize = 0 /\ base[t] = raw[t] + HeadLength(t)
    BY <2>1 DEF BasesAligned, Aligned
  <2>3. /\ base[t] % HugePage = 0 /\ TailLength(t) \in Nat
        /\ MappedLen(t) \in Nat /\ blocks[t] <= MappedLen(t)
    BY <2>1, <2>2, PiecesArePages
  <2>4. base[t] \in Nat /\ blocks[t] \in Nat
    BY <2>1 DEF MemoryTypes
  <2>5. Stretch(base[t], blocks[t]) \subseteq Stretch(base[t], MappedLen(t))
    <3> DEFINE m == MappedLen(t)
    <3> HIDE DEF m
    <3>1. m \in Nat /\ blocks[t] <= m
      BY <2>3 DEF m
    <3>2. base[t] .. base[t] + blocks[t] - 1 \subseteq base[t] .. base[t] + m - 1
      BY <2>4, <3>1, SMT
    <3> QED BY <3>2 DEF Stretch, m
  <2>6. Stretch(base[t], MappedLen(t)) \subseteq Holding(t)
    <3>1. CASE step[t] = "trim tail"
      <4>1. Holding(t) = Stretch(base[t], MappedLen(t) + TailLength(t))
        BY <3>1 DEF Holding
      <4> DEFINE m == MappedLen(t)
                 w == TailLength(t)
      <4> HIDE DEF m, w
      <4>2. m \in Nat /\ w \in Nat
        BY <2>3 DEF m, w
      <4>3. base[t] .. base[t] + m - 1 \subseteq base[t] .. base[t] + (m + w) - 1
        BY <2>4, <4>2, SMT
      <4> QED BY <4>1, <4>3 DEF Stretch, m, w
    <3>2. CASE step[t] # "trim tail"
      BY <3>2 DEF Holding, Aligned
    <3> QED BY <3>1, <3>2
  <2> QED BY <2>1, <2>3, <2>5, <2>6 DEF HoldsIt
<1> QED BY <1>1, MemoryInductive, PTL

\* A thread none of whose munmaps failed has its arena mapped, rounded up to a
\* page, and no slack; once the arena is dropped it has nothing.
THEOREM NoSlackStays == MemorySpec => []SlackGivenBack
<1>1. MemoryInvariant => SlackGivenBack
  <2> SUFFICES ASSUME MemoryInvariant, NEW t \in Threads, leaks[t] = 0
      PROVE  /\ step[t] \in {"advise", "mapped", "unmap"} =>
                  MappedBy(t) = Stretch(base[t], MappedLen(t))
             /\ step[t] \notin {"trim head", "trim tail", "advise", "mapped", "unmap"} =>
                  MappedBy(t) = {}
    BY DEF SlackGivenBack
  <2>1. MappedBy(t) = Holding(t)
    BY DEF MemoryInvariant, HoldsIt
  <2> QED BY <2>1 DEF Holding
<1> QED BY <1>1, MemoryInductive, PTL

-----------------------------------------------------------------------------
(* OsRandom                                                                 *)

\* What the loop counts, or is about to.
Counted == IF draw = "returned" /\ answer.rc = "bytes" THEN done + answer.n
           ELSE IF draw = "returned" /\ answer.rc = "success" THEN done + Chunk
           ELSE done

\* A loop never counts a byte that has not come.
CountedIsWritten ==
  /\ Counted <= saltLen
  /\ \A i \in 1 .. Counted : salt[i] = "os"

\* The platforms with one call ask for everything at once.
AsksForAll ==
  /\ draw = "loop" => platform # "one call"
  /\ draw = "returned" /\ answer.rc \in {"EINTR", "bytes"} => platform = "getrandom"
  /\ draw = "call" /\ platform = "one call" => done = 0
  /\ draw = "returned" /\ answer.rc = "success" =>
       platform = "getentropy" \/ (platform = "one call" /\ done = 0)

OkIsWhole == draw \in {"ok", "hash"} => \A i \in 1 .. saltLen : salt[i] = "os"

AtStart == draw = "begin" => done = 0

DrawInvariant == DrawTypeOK /\ CountedIsWritten /\ AsksForAll /\ OkIsWhole /\ AtStart

-----------------------------------------------------------------------------
\* Bytes that come stay.
LEMMA WrittenIs ==
  ASSUME DrawTypeOK, NEW positions
  PROVE  /\ Written(positions) \in [1 .. saltLen -> {"caller", "os"}]
         /\ \A i \in 1 .. saltLen :
              i \in positions \/ salt[i] = "os" => Written(positions)[i] = "os"
BY DEF DrawTypeOK, Written

LEMMA LengthsAre ==
  ASSUME DrawTypeOK
  PROVE  saltLen \in Nat /\ done \in Nat /\ done <= saltLen
BY OsRandomAssumption DEF DrawTypeOK

\* A call asks for something that is left; with one call, for all of it.
LEMMA ChunkIs ==
  ASSUME DrawTypeOK
  PROVE  /\ Chunk \in Nat /\ done + Chunk <= saltLen
         /\ platform = "one call" => done + Chunk = saltLen
<1>1. saltLen \in Nat /\ done \in Nat /\ done <= saltLen
  BY LengthsAre
<1>2. saltLen - done \in Nat /\ done + (saltLen - done) = saltLen
  BY <1>1
<1>3. CASE platform # "getentropy" \/ saltLen - done < EntropyMax
  <2>1. Chunk = saltLen - done
    BY <1>3 DEF Chunk
  <2> QED BY <1>1, <1>2, <2>1
<1>4. CASE platform = "getentropy" /\ ~(saltLen - done < EntropyMax)
  <2>1. Chunk = EntropyMax /\ EntropyMax \in Nat /\ EntropyMax <= saltLen - done
    BY <1>2, <1>4, OsRandomAssumption DEF Chunk
  <2> QED BY <1>1, <1>4, <2>1
<1> QED BY <1>3, <1>4

LEMMA DrawStarts ==
  ASSUME DrawInit
  PROVE  DrawInvariant
<1>1. saltLen \in Nat
  BY OsRandomAssumption DEF DrawInit
<1>2. DrawTypeOK
  <2>1. answer \in [rc : {"none", "zero", "EINTR", "errno", "success", "failure"}]
    BY DEF DrawInit
  <2>2. salt \in [1 .. saltLen -> {"caller", "os"}]
    BY DEF DrawInit
  <2> QED BY <1>1, <2>1, <2>2, OsRandomAssumption DEF DrawTypeOK, DrawInit
<1>3. Counted = 0
  BY DEF DrawInit, Counted
<1> QED BY <1>1, <1>2, <1>3 DEF DrawInit, DrawInvariant, CountedIsWritten, AsksForAll,
                          OkIsWhole, AtStart

\* The system has answered a call of getrandom.
LEMMA GetrandomAnswered ==
  ASSUME DrawInvariant, AnswerGetrandom
  PROVE  DrawInvariant'
<1> USE DEF DrawInvariant
<1>0. saltLen \in Nat /\ done \in Nat /\ done <= saltLen
  BY LengthsAre
<1>1. CASE \E n \in 1 .. saltLen - done :
             /\ Answers([rc |-> "bytes", n |-> n])
             /\ salt' = Written(done + 1 .. done + n)
             /\ UNCHANGED interrupts
  <2> PICK n \in 1 .. saltLen - done :
             /\ Answers([rc |-> "bytes", n |-> n])
             /\ salt' = Written(done + 1 .. done + n)
             /\ UNCHANGED interrupts
    BY <1>1
  <2>1. /\ answer' = [rc |-> "bytes", n |-> n] /\ draw' = "returned"
        /\ platform' = platform /\ saltLen' = saltLen /\ done' = done /\ interrupts' = interrupts
    BY DEF Answers
  <2>2. answer'.rc = "bytes" /\ answer'.n = n
    BY <2>1
  <2>3. n \in 1 .. saltLen /\ done + n <= saltLen
    BY <1>0
  <2>4. answer' \in [rc : {"bytes"}, n : 1 .. saltLen]
    BY <2>1, <2>3
  <2>5. DrawTypeOK'
    BY <2>1, <2>4, WrittenIs DEF DrawTypeOK
  <2>6. Counted' = done + n
    BY <2>1, <2>2 DEF Counted
  <2>7. \A i \in 1 .. done : salt[i] = "os"
    BY DEF CountedIsWritten, Counted, AnswerGetrandom
  <2>8. \A i \in 1 .. done + n : salt'[i] = "os"
    <3> TAKE i \in 1 .. done + n
    <3>1. i \in 1 .. saltLen /\ (i \in 1 .. done \/ i \in done + 1 .. done + n)
      BY <1>0, <2>3
    <3> QED BY <2>7, <3>1, WrittenIs
  <2>9. CountedIsWritten'
    BY <2>1, <2>3, <2>6, <2>8 DEF CountedIsWritten
  <2>10. AsksForAll'
    BY <2>1, <2>2 DEF AsksForAll, AnswerGetrandom
  <2> QED BY <2>1, <2>5, <2>9, <2>10 DEF OkIsWhole, AtStart
<1>2. ASSUME NEW rc \in {"zero", "EINTR", "errno"}, Answers([rc |-> rc]), salt' = salt,
             interrupts' \in 0 .. MaxInterrupts
      PROVE  DrawInvariant'
  <2>1. /\ answer' = [rc |-> rc] /\ draw' = "returned"
        /\ platform' = platform /\ saltLen' = saltLen /\ done' = done
    BY <1>2 DEF Answers
  <2>2. answer'.rc = rc
    BY <2>1
  <2>3. DrawTypeOK'
    BY <1>2, <2>1 DEF DrawTypeOK
  <2>4. Counted' = done /\ Counted = done
    BY <2>1, <2>2 DEF Counted, AnswerGetrandom
  <2>5. CountedIsWritten'
    BY <1>2, <2>1, <2>4 DEF CountedIsWritten
  <2>6. platform' = "getrandom"
    BY <2>1 DEF AnswerGetrandom
  <2> QED BY <2>1, <2>2, <2>3, <2>5, <2>6 DEF AsksForAll, OkIsWhole, AtStart
<1>3. interrupts \in 0 .. MaxInterrupts
  BY DEF DrawTypeOK
<1>4. interrupts < MaxInterrupts => interrupts + 1 \in 0 .. MaxInterrupts
  BY <1>3, OsRandomAssumption
<1> QED BY <1>1, <1>2, <1>3, <1>4 DEF AnswerGetrandom

\* It has answered a call that gives everything or nothing.
LEMMA WholeAnswered ==
  ASSUME DrawInvariant, AnswerWhole
  PROVE  DrawInvariant'
<1> USE DEF DrawInvariant
<1>0. /\ saltLen \in Nat /\ done \in Nat /\ done <= saltLen
      /\ Chunk \in Nat /\ done + Chunk <= saltLen
  BY LengthsAre, ChunkIs
<1>1. CASE Answers([rc |-> "success"]) /\ salt' = Written(done + 1 .. done + Chunk)
  <2>1. /\ answer' = [rc |-> "success"] /\ draw' = "returned" /\ interrupts' = interrupts
        /\ platform' = platform /\ saltLen' = saltLen /\ done' = done
    BY <1>1 DEF Answers, AnswerWhole
  <2>2. answer'.rc = "success"
    BY <2>1
  <2>3. DrawTypeOK'
    BY <1>1, <2>1, WrittenIs DEF DrawTypeOK
  <2>4. Counted' = done + Chunk
    BY <2>1, <2>2 DEF Counted, Chunk
  <2>5. \A i \in 1 .. done : salt[i] = "os"
    BY DEF CountedIsWritten, Counted, AnswerWhole
  <2>6. \A i \in 1 .. done + Chunk : salt'[i] = "os"
    <3> TAKE i \in 1 .. done + Chunk
    <3>1. i \in 1 .. saltLen /\ (i \in 1 .. done \/ i \in done + 1 .. done + Chunk)
      BY <1>0
    <3> QED BY <1>1, <2>5, <3>1, WrittenIs
  <2>7. AsksForAll'
    BY <2>1, <2>2 DEF AsksForAll, AnswerWhole
  <2> QED BY <1>0, <2>1, <2>3, <2>4, <2>6, <2>7 DEF CountedIsWritten, OkIsWhole, AtStart
<1>2. CASE Answers([rc |-> "failure"]) /\ UNCHANGED salt
  <2>1. /\ answer' = [rc |-> "failure"] /\ draw' = "returned" /\ interrupts' = interrupts
        /\ platform' = platform /\ saltLen' = saltLen /\ done' = done /\ salt' = salt
    BY <1>2 DEF Answers, AnswerWhole
  <2>2. answer'.rc = "failure"
    BY <2>1
  <2>3. DrawTypeOK'
    BY <2>1 DEF DrawTypeOK
  <2>4. Counted' = done /\ Counted = done
    BY <2>1, <2>2 DEF Counted, AnswerWhole
  <2> QED BY <2>1, <2>2, <2>3, <2>4 DEF CountedIsWritten, AsksForAll, OkIsWhole, AtStart
<1> QED BY <1>1, <1>2 DEF AnswerWhole

\* A step that only moves on.
LEMMA MovesOn ==
  ASSUME DrawInvariant, NEW to \in {"loop", "call", "urandom", "ok", "error", "hash"}, Goes(to),
         draw = "returned" => answer.rc \notin {"bytes", "success"},
         to = "call" /\ platform = "one call" => done = 0,
         to = "loop" => platform # "one call",
         to \in {"ok", "hash"} => \A i \in 1 .. saltLen : salt[i] = "os"
  PROVE  DrawInvariant'
<1> USE DEF DrawInvariant
<1>1. /\ draw' = to /\ platform' = platform /\ saltLen' = saltLen /\ salt' = salt
      /\ done' = done /\ answer' = answer /\ interrupts' = interrupts
  BY DEF Goes
<1>2. DrawTypeOK'
  BY <1>1 DEF DrawTypeOK
<1>3. Counted' = done /\ Counted = done
  BY <1>1 DEF Counted
<1> QED BY <1>1, <1>2, <1>3 DEF CountedIsWritten, AsksForAll, OkIsWhole, AtStart

\* The program takes an answer, or goes on.
LEMMA ProgramSteps ==
  ASSUME DrawInvariant, DrawStep
  PROVE  DrawInvariant'
<1> USE DEF DrawInvariant
<1>0. saltLen \in Nat /\ done \in Nat /\ done <= saltLen
  BY LengthsAre
<1>1. CASE EnterFill
  <2>1. platform \in Platforms /\ draw = "begin" /\ done = 0
    BY <1>1 DEF EnterFill, DrawTypeOK, AtStart
  <2>2. CASE platform = "urandom" \/ platform = "none"
    BY <1>1, <2>1, <2>2, MovesOn DEF EnterFill
  <2>3. CASE platform = "one call"
    BY <1>1, <2>1, <2>3, MovesOn DEF EnterFill
  <2>4. CASE platform \in {"getrandom", "getentropy"}
    <3>1. Goes("loop")
      BY <1>1, <2>4 DEF EnterFill
    <3> QED BY <2>1, <2>4, <3>1, MovesOn
  <2> QED BY <2>1, <2>2, <2>3, <2>4 DEF Platforms
<1>2. CASE LoopTest
  <2>1. ~(done < saltLen) => done = saltLen
    BY <1>0
  <2>2. Counted = done
    BY <1>2 DEF LoopTest, Counted
  <2>3. ~(done < saltLen) => \A i \in 1 .. saltLen : salt[i] = "os"
    BY <2>1, <2>2 DEF CountedIsWritten
  <2>4. platform # "one call"
    BY <1>2 DEF LoopTest, AsksForAll
  <2>5. CASE done < saltLen
    BY <1>2, <2>4, <2>5, MovesOn DEF LoopTest
  <2>6. CASE ~(done < saltLen)
    BY <1>2, <2>3, <2>6, MovesOn DEF LoopTest
  <2> QED BY <2>5, <2>6
<1>3. CASE TakeBytes
  <2>1. /\ draw = "returned" /\ answer.rc = "bytes" /\ done' = done + answer.n /\ draw' = "loop"
        /\ platform' = platform /\ saltLen' = saltLen /\ salt' = salt
        /\ answer' = answer /\ interrupts' = interrupts
    BY <1>3 DEF TakeBytes
  <2>2. answer \in [rc : {"bytes"}, n : 1 .. saltLen]
    BY <2>1 DEF DrawTypeOK
  <2>3. Counted = done + answer.n /\ answer.n \in 1 .. saltLen /\ done + answer.n \in 0 .. saltLen
    BY <1>0, <2>1, <2>2 DEF Counted, CountedIsWritten
  <2>4. DrawTypeOK'
    BY <2>1, <2>3 DEF DrawTypeOK
  <2>5. Counted' = Counted
    BY <2>1, <2>3 DEF Counted
  <2>6. platform' # "one call"
    BY <2>1 DEF AsksForAll
  <2> QED BY <2>1, <2>4, <2>5, <2>6 DEF CountedIsWritten, AsksForAll, OkIsWhole, AtStart
<1>4. CASE NoProgress
  BY <1>4, MovesOn DEF NoProgress
<1>5. CASE Interrupted
  <2>1. draw = "returned" /\ answer.rc = "EINTR" /\ Goes("loop")
    BY <1>5 DEF Interrupted
  <2>2. platform # "one call"
    BY <2>1 DEF AsksForAll
  <2> QED BY <2>1, <2>2, MovesOn
<1>6. CASE FallBack
  BY <1>6, MovesOn DEF FallBack
<1>7. CASE TakeChunk
  <2>1. /\ draw = "returned" /\ answer.rc = "success" /\ done' = done + Chunk
        /\ draw' = IF platform = "getentropy" THEN "loop" ELSE "ok"
        /\ platform' = platform /\ saltLen' = saltLen /\ salt' = salt
        /\ answer' = answer /\ interrupts' = interrupts
    BY <1>7 DEF TakeChunk
  <2>2. Counted = done + Chunk /\ done + Chunk \in 0 .. saltLen
    <3>1. Counted = done + Chunk
      BY <2>1 DEF Counted
    <3>2. Chunk \in Nat /\ done + Chunk <= saltLen
      BY ChunkIs
    <3>3. done + Chunk \in 0 .. saltLen
      BY <1>0, <3>2
    <3> QED BY <3>1, <3>3
  <2>3. DrawTypeOK'
    BY <2>1, <2>2 DEF DrawTypeOK
  <2>4. Counted' = Counted
    BY <2>1, <2>2 DEF Counted
  <2>5. draw' = "ok" => done + Chunk = saltLen
    BY <2>1, ChunkIs DEF AsksForAll
  <2>6. \A i \in 1 .. done + Chunk : salt[i] = "os"
    BY <2>2 DEF CountedIsWritten
  <2> QED BY <2>1, <2>3, <2>4, <2>5, <2>6 DEF CountedIsWritten, AsksForAll, OkIsWhole, AtStart
<1>8. CASE OneCallFails
  BY <1>8, MovesOn DEF OneCallFails
<1>9. CASE FillUrandom
  <2> PICK n \in 0 .. saltLen :
        /\ salt' = Written(1 .. n)
        /\ draw' \in {"error"} \cup (IF n = saltLen THEN {"ok"} ELSE {})
    BY <1>9 DEF FillUrandom
  <2>1. /\ draw = "urandom" /\ draw' \in {"error", "ok"} /\ (draw' = "ok" => n = saltLen)
        /\ platform' = platform /\ saltLen' = saltLen /\ done' = done
        /\ answer' = answer /\ interrupts' = interrupts
    BY <1>9 DEF FillUrandom
  <2>2. DrawTypeOK'
    BY <2>1, WrittenIs DEF DrawTypeOK
  <2>3. Counted = done /\ Counted' = done
    BY <2>1 DEF Counted
  <2>4. \A i \in 1 .. done : salt'[i] = "os"
    <3> TAKE i \in 1 .. done
    <3>1. i \in 1 .. saltLen /\ salt[i] = "os"
      BY <1>0, <2>3 DEF CountedIsWritten
    <3> QED BY <3>1, WrittenIs
  <2>5. draw' = "ok" => \A i \in 1 .. saltLen : salt'[i] = "os"
    BY <2>1, WrittenIs
  <2> QED BY <1>0, <2>1, <2>2, <2>3, <2>4, <2>5
          DEF CountedIsWritten, AsksForAll, OkIsWhole, AtStart
<1>10. CASE Hash
  BY <1>10, MovesOn DEF Hash, OkIsWhole
<1> QED BY <1>1, <1>2, <1>3, <1>4, <1>5, <1>6, <1>7, <1>8, <1>9, <1>10 DEF DrawStep

THEOREM DrawIsSound == DrawSpec => []DrawInvariant
<1>1. DrawInit => DrawInvariant
  BY DrawStarts
<1>2. DrawInvariant /\ [DrawNext]_drawVars => DrawInvariant'
  <2> SUFFICES ASSUME DrawInvariant, [DrawNext]_drawVars PROVE DrawInvariant'
    OBVIOUS
  <2>1. CASE UNCHANGED drawVars
    BY <2>1 DEF drawVars, DrawInvariant, DrawTypeOK, CountedIsWritten, Counted, Chunk, AsksForAll,
                OkIsWhole, AtStart
  <2> QED BY <2>1, GetrandomAnswered, WholeAnswered, ProgramSteps DEF DrawNext
<1> QED BY <1>1, <1>2, PTL DEF DrawSpec

\* No hash begins over a salt that the operating system has not written throughout, for
\* any length and however the system calls answer.
THEOREM SaltIsWhole == DrawSpec => []DrawIsWhole
<1>1. DrawInvariant => DrawIsWhole
  BY DEF DrawInvariant, OkIsWhole, DrawIsWhole
<1> QED BY <1>1, DrawIsSound, PTL

=============================================================================
