----------------------------- MODULE Workspace -----------------------------
(***************************************************************************)
(* Arena, Workspace and ArenaGuard of src/src/memory.rs: one parked arena  *)
(* that hashes borrow in turn, wiped when it comes back.                   *)
(*                                                                         *)
(* A client borrows an arena through a guard (which borrows the workspace  *)
(* until it is dropped), or owns one, taken from the workspace or made     *)
(* with Arena::new, that it later releases into the workspace or drops.    *)
(* The allocator may refuse any request, and the client may panic while it *)
(* holds arenas and be caught outside.                                     *)
(*                                                                         *)
(* The content of an arena is the set of its blocks that are not zero.     *)
(***************************************************************************)
EXTENDS Integers

CONSTANTS
  MaxBlocks,       \* the largest arena with a valid layout
  WipeThreshold,   \* WIPE_THREAD_THRESHOLD, in blocks
  ThreadCounts     \* what Params::threads may be

ASSUME WorkspaceAssumption ==
  /\ MaxBlocks \in Nat \ {0}
  /\ WipeThreshold \in Nat
  /\ ThreadCounts \subseteq Nat \ {0}

VARIABLES
  zeroizeMemory,  \* whether the build has the feature zeroize-memory
  parked,         \* Workspace::arena
  loan,           \* the arena a guard holds, and the one the client owns
  unwinding,      \* whether the client is unwinding from a panic
  freedDirty,     \* whether memory was ever freed that was not all zero
  spawned         \* whether a wipe ever spawned threads during an unwind

wsVars == <<zeroizeMemory, parked, loan, unwinding, freedDirty, spawned>>

Request == 0 .. MaxBlocks + 1
ValidLayout(n) == n \in 1 .. MaxBlocks
Loans == {"guard", "owned"}

\* Arena: capacity, visible length, non-zero blocks, and the two fields.
Arena == [cap : 0 .. MaxBlocks, len : 0 .. MaxBlocks,
          dirty : SUBSET (0 .. MaxBlocks - 1), zeroed : BOOLEAN,
          workers : ThreadCounts \cup {1}]

\* Arena::new, from alloc_zeroed or an anonymous mapping.
NewArena(n) == [cap |-> n, len |-> n, dirty |-> {}, zeroed |-> TRUE, workers |-> 1]

\* No arena: its capacity reads 0, which no arena has.
NoArena == NewArena(0)

Visible(a) == 0 .. a.len - 1

\* Definitions named ...Mutant are plausible bugs; no specification uses them.

\* Claims the flag although the wipe compiled to nothing.
WipeVisibleMutant(a) ==
  [a EXCEPT !.dirty = IF zeroizeMemory THEN @ \ Visible(a) ELSE @,
            !.zeroed = TRUE]

\* Stops one block short, as a wrong split into stripes would.
WipeShortMutant(a) ==
  IF zeroizeMemory THEN [a EXCEPT !.dirty = @ \ (0 .. a.len - 2), !.zeroed = TRUE]
  ELSE a

\* wipe_visible: the visible blocks only, and nothing without the feature.
WipeVisible(a) ==
  IF zeroizeMemory THEN [a EXCEPT !.dirty = @ \ Visible(a), !.zeroed = TRUE] ELSE a

\* Whether wipe_visible spawns threads.
WipeSpawns(a) == zeroizeMemory /\ a.len >= WipeThreshold /\ a.workers > 1

\* Drop for Arena: what is left in the memory when it is freed.
AfterDrop(a) == IF a.zeroed THEN a ELSE WipeVisible(a)
FreesDirty(a) == AfterDrop(a).dirty # {}

\* The workspace can be called: no guard borrows it.
Callable == ~unwinding /\ loan["guard"] = NoArena

Init ==
  /\ zeroizeMemory \in BOOLEAN
  /\ parked = NoArena
  /\ loan = [k \in Loans |-> NoArena]
  /\ unwinding = FALSE
  /\ freedDirty = FALSE
  /\ spawned = FALSE

-----------------------------------------------------------------------------
(* reserve and acquire *)

\* reserve returns early: nothing asked for, or capacity enough; or the size has
\* no valid layout, which is found out before the parked arena is touched.  The
\* same request fails in acquire, which rejects 0 as well.
ReserveKeeps(n) ==
  /\ Callable
  /\ n = 0 \/ parked.cap >= n \/ ~ValidLayout(n)
  /\ UNCHANGED wsVars

\* Frees the parked arena before it asks the allocator for a larger one, which
\* may fail.
FreeParked ==
  /\ freedDirty' = (freedDirty \/ FreesDirty(parked))
  /\ UNCHANGED <<zeroizeMemory, unwinding, spawned>>

Grows(n) == Callable /\ ValidLayout(n) /\ parked.cap < n

ReserveGrows(n) ==
  /\ Grows(n)
  /\ FreeParked
  /\ parked' = NewArena(n)
  /\ UNCHANGED loan

\* The allocator refuses, in reserve or in acquire.
GrowthFails(n) ==
  /\ Grows(n)
  /\ FreeParked
  /\ parked' = NoArena
  /\ UNCHANGED loan

\* acquire and acquire_owned, when the parked arena is large enough: retarget it.
AcquireParked(n, k) ==
  /\ Callable
  /\ loan[k] = NoArena
  /\ n > 0
  /\ parked.cap >= n
  /\ loan' = [loan EXCEPT ![k] = [parked EXCEPT !.len = n]]
  /\ parked' = NoArena
  /\ UNCHANGED <<zeroizeMemory, unwinding, freedDirty, spawned>>

AcquireGrows(n, k) ==
  /\ Grows(n)
  /\ loan[k] = NoArena
  /\ FreeParked
  /\ loan' = [loan EXCEPT ![k] = NewArena(n)]
  /\ parked' = NoArena

-----------------------------------------------------------------------------
(* What the client does with an arena it holds *)

Holds(k) == ~unwinding /\ loan[k] # NoArena

\* Arena::new, without a workspace.
AllocateOwned(n) ==
  /\ ~unwinding
  /\ loan["owned"] = NoArena
  /\ ValidLayout(n)
  /\ loan' = [loan EXCEPT !["owned"] = NewArena(n)]
  /\ UNCHANGED <<zeroizeMemory, parked, unwinding, freedDirty, spawned>>

\* Leaves the flag to what the caller writes first.
WriteMutant(k, blocks) ==
  /\ Holds(k)
  /\ blocks \subseteq Visible(loan[k])
  /\ loan' = [loan EXCEPT ![k].dirty = @ \cup blocks]
  /\ UNCHANGED <<zeroizeMemory, parked, unwinding, freedDirty, spawned>>

\* as_mut_slice or as_mut_ptr, and what the client stores through it.
Write(k, blocks) ==
  /\ Holds(k)
  /\ blocks \subseteq Visible(loan[k])
  /\ loan' = [loan EXCEPT ![k].dirty = @ \cup blocks, ![k].zeroed = FALSE]
  /\ UNCHANGED <<zeroizeMemory, parked, unwinding, freedDirty, spawned>>

\* ensure_zeroed covers the whole capacity.
EnsureZeroed(k) ==
  /\ Holds(k)
  /\ ~loan[k].zeroed
  /\ loan' = [loan EXCEPT ![k].dirty = {}, ![k].zeroed = TRUE]
  /\ UNCHANGED <<zeroizeMemory, parked, unwinding, freedDirty, spawned>>

SetWorkers(k, t) ==
  /\ Holds(k)
  /\ loan' = [loan EXCEPT ![k].workers = t]
  /\ UNCHANGED <<zeroizeMemory, parked, unwinding, freedDirty, spawned>>

-----------------------------------------------------------------------------
(* release, drop, clear and panics *)

\* Parks whatever came back last.
ReleaseMutant(k) ==
  /\ loan[k] # NoArena
  /\ LET back == WipeVisible(loan[k])
     IN /\ parked' = back
        /\ freedDirty' = (freedDirty \/ FreesDirty(parked))
        /\ spawned' = (spawned \/ (unwinding /\ WipeSpawns(loan[k])))
  /\ loan' = [loan EXCEPT ![k] = NoArena]
  /\ UNCHANGED <<zeroizeMemory, unwinding>>

\* Parks the arena as it came back.
ReleaseUnwipedMutant(k) ==
  /\ loan[k] # NoArena
  /\ parked' = IF parked.cap >= loan[k].cap THEN parked ELSE loan[k]
  /\ loan' = [loan EXCEPT ![k] = NoArena]
  /\ UNCHANGED <<zeroizeMemory, unwinding, freedDirty, spawned>>

\* Wipe, then keep the larger of the two arenas and drop the other.
Release(k) ==
  /\ loan[k] # NoArena
  /\ LET back == WipeVisible(loan[k])
         keepParked == parked.cap >= back.cap
     IN /\ parked' = IF keepParked THEN parked ELSE back
        /\ freedDirty' = (freedDirty \/ FreesDirty(IF keepParked THEN back ELSE parked))
        /\ spawned' = (spawned \/ (unwinding /\ WipeSpawns(loan[k])))
  /\ loan' = [loan EXCEPT ![k] = NoArena]
  /\ UNCHANGED <<zeroizeMemory, unwinding>>

\* Drop for ArenaGuard, on a normal path and on unwind.
DropGuard == Release("guard")

ReleaseOwned == Callable /\ Release("owned")

\* Drop for an Arena the client owns; it does not spawn while unwinding.
DropOwned ==
  /\ loan["owned"] # NoArena
  /\ freedDirty' = (freedDirty \/ FreesDirty(loan["owned"]))
  /\ loan' = [loan EXCEPT !["owned"] = NoArena]
  /\ UNCHANGED <<zeroizeMemory, parked, unwinding, spawned>>

\* mem::forget on a guard: the arena leaks, and is never freed.
ForgetGuard ==
  /\ Holds("guard")
  /\ loan' = [loan EXCEPT !["guard"] = NoArena]
  /\ UNCHANGED <<zeroizeMemory, parked, unwinding, freedDirty, spawned>>

Clear ==
  /\ Callable
  /\ FreeParked
  /\ parked' = NoArena
  /\ UNCHANGED loan

\* The client panics while it holds an arena ...
Panic ==
  /\ \E k \in Loans : Holds(k)
  /\ unwinding' = TRUE
  /\ UNCHANGED <<zeroizeMemory, parked, loan, freedDirty, spawned>>

\* ... and is caught once everything it held has been dropped.
Catch ==
  /\ unwinding
  /\ \A k \in Loans : loan[k] = NoArena
  /\ unwinding' = FALSE
  /\ UNCHANGED <<zeroizeMemory, parked, loan, freedDirty, spawned>>

-----------------------------------------------------------------------------
WorkspaceNext ==
  \/ \E n \in Request : ReserveKeeps(n) \/ ReserveGrows(n) \/ GrowthFails(n)
  \/ \E n \in Request, k \in Loans : AcquireParked(n, k) \/ AcquireGrows(n, k)
  \/ \E n \in Request : AllocateOwned(n)
  \/ \E k \in Loans, blocks \in SUBSET (0 .. MaxBlocks - 1) : Write(k, blocks)
  \/ \E k \in Loans : EnsureZeroed(k)
  \/ \E k \in Loans, t \in ThreadCounts : SetWorkers(k, t)
  \/ DropGuard
  \/ ReleaseOwned
  \/ DropOwned
  \/ ForgetGuard
  \/ Clear
  \/ Panic
  \/ Catch

WorkspaceSpec == Init /\ [][WorkspaceNext]_wsVars

-----------------------------------------------------------------------------
Live == {parked} \cup {loan[k] : k \in Loans}

\* Types, and a window that lies inside its arena.
WorkspaceTypeOK ==
  /\ zeroizeMemory \in BOOLEAN
  /\ parked \in Arena
  /\ loan \in [Loans -> Arena]
  /\ unwinding \in BOOLEAN
  /\ freedDirty \in BOOLEAN
  /\ spawned \in BOOLEAN
  /\ \A a \in Live : a.len <= a.cap /\ a.dirty \subseteq 0 .. a.cap - 1
                     /\ (a.cap > 0 => a.len > 0)

\* Invariant 3 of Arena, in every feature configuration: an arena that says it is
\* known to be zero is zero throughout its capacity.
KnownZeroedIsZero == \A a \in Live : a.zeroed => a.dirty = {}

\* Invariant 2 of Arena: with zeroize-memory nothing outside the visible window is
\* left over, and nothing at all in the parked arena.
TailIsZero ==
  zeroizeMemory =>
    /\ \A a \in Live : a.dirty \subseteq Visible(a)
    /\ parked.dirty = {}

\* With zeroize-memory no memory goes back to the allocator with anything left in
\* it, whichever way it goes: growth, release, drop, clear or unwind.
NothingFreedDirty == zeroizeMemory => ~freedDirty

\* With zeroize-memory an arena that is handed out is all zero.
AcquireReturnsZero ==
  [][\A k \in Loans :
       zeroizeMemory /\ loan[k] = NoArena /\ loan'[k] # NoArena
         => loan'[k].dirty = {}]_wsVars

\* The largest arena around gets smaller only when the client gives it up or a
\* growth that could have succeeded fails: never by releasing a smaller arena,
\* and never by a request that no allocation can satisfy.
Largest == IF \E a \in Live : a.cap > parked.cap
           THEN (CHOOSE a \in Live : \A b \in Live : b.cap <= a.cap).cap
           ELSE parked.cap

ShrinksOnlyOnPurpose ==
  [][Largest' < Largest =>
       \/ Clear \/ DropOwned \/ ForgetGuard
       \/ \E n \in 1 .. MaxBlocks : n > parked.cap /\ GrowthFails(n)]_wsVars

\* What Drop for Arena says of wipes: "Never spawn while unwinding".
NoSpawnWhileUnwinding == ~spawned
=============================================================================
