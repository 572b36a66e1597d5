------------------------------ MODULE OsMemory ------------------------------
(***************************************************************************)
(* Where an arena's bytes come from and how they go back: Arena::new and   *)
(* Drop for Arena of memory.rs over the mapping of module os, one system   *)
(* call a step, by several threads of one address space.                   *)
(*                                                                         *)
(* map_aligned maps more than it needs, cuts the head off to align what is *)
(* left and the tail off to keep no more than the arena: between the calls *)
(* other threads map and unmap next to it.  munmap works on whole pages,   *)
(* whoever mapped them: a wrong length takes another arena's memory away.  *)
(* Addresses and lengths count blocks; the heap is the allocator's own.    *)
(***************************************************************************)
EXTENDS Integers

CONSTANTS
  Threads,      \* each makes one arena at a time
  Sizes,        \* blocks an arena may ask for
  PageSize,     \* sysconf(_SC_PAGESIZE)
  HugePage,     \* HUGE_PAGE: the alignment, and the least that is mapped
  Top,          \* the end of the addresses the kernel has to give
  MaxAddress,   \* the largest usize
  MaxLeaks      \* bound on the munmaps that fail

Nobody == "nobody"

ASSUME OsMemoryAssumption ==
  /\ Nobody \notin Threads
  /\ Sizes \subseteq Nat \ {0}
  /\ PageSize \in Nat \ {0}
  /\ HugePage \in Nat \ {0}
  /\ HugePage % PageSize = 0
  /\ Top \in Nat
  /\ MaxAddress \in Nat
  /\ MaxLeaks \in Nat

Addresses == 0 .. Top - 1

VARIABLES
  mapper,   \* who mapped each address
  step,     \* where each thread is
  blocks,   \* what it asks for
  raw,      \* where its mapping began
  base,     \* where its arena begins, once aligned
  leaks     \* how many of its munmaps failed for want of a mapping to cut a hole

memoryVars == <<mapper, step, blocks, raw, base, leaks>>

RoundUp(n, to) == ((n + to - 1) \div to) * to

\* len: the arena rounded up to a page; over: what is mapped.
MappedLen(t) == RoundUp(blocks[t], PageSize)
OverLen(t) == MappedLen(t) + HugePage

\* Neither length wraps around.
LengthsFit(t) == OverLen(t) <= MaxAddress

Stretch(from, length) == from .. from + length - 1

\* The slack before and after the arena.
HeadLength(t) == RoundUp(raw[t], HugePage) - raw[t]

\* Cuts a whole alignment off the end, whatever was cut off the start.
TailLengthMutant(t) == HugePage
TailLength(t) == HugePage - HeadLength(t)

MemoryInit ==
  /\ mapper = [a \in Addresses |-> Nobody]
  /\ step = [t \in Threads |-> "idle"]
  /\ blocks = [t \in Threads |-> 0]
  /\ raw = [t \in Threads |-> 0]
  /\ base = [t \in Threads |-> 0]
  /\ leaks = [t \in Threads |-> 0]

GoesOn(t, to) == step' = [step EXCEPT ![t] = to]

\* The Arena value is gone.
Forget(t) ==
  /\ blocks' = [blocks EXCEPT ![t] = 0]
  /\ raw' = [raw EXCEPT ![t] = 0]
  /\ base' = [base EXCEPT ![t] = 0]

-----------------------------------------------------------------------------
(* munmap, external to the repository: refuses an address inside a page,     *)
(* rounds the length up to a page, and may lack the mapping it needs to cut  *)
(* a hole.                                                                   *)

Unmaps(t, from, length, to) ==
  /\ GoesOn(t, to)
  /\ \/ /\ from % PageSize = 0
        /\ mapper' = [a \in Addresses |->
                        IF a \in Stretch(from, RoundUp(length, PageSize)) THEN Nobody ELSE mapper[a]]
        /\ UNCHANGED leaks
     \/ /\ from % PageSize # 0
        /\ UNCHANGED <<mapper, leaks>>
     \/ /\ \A u \in Threads : leaks[u] < MaxLeaks
        /\ leaks' = [leaks EXCEPT ![t] = @ + 1]
        /\ UNCHANGED mapper

-----------------------------------------------------------------------------
(* Arena::new                                                                *)

\* From here an arena of at least a huge page is mapped, if the kernel allows.
Ask(t) ==
  /\ step[t] = "idle"
  /\ \E n \in Sizes :
       /\ blocks' = [blocks EXCEPT ![t] = n]
       /\ GoesOn(t, IF n >= HugePage THEN "map" ELSE "heap")
  /\ UNCHANGED <<mapper, raw, base, leaks>>

\* mmap gives any free range of whole pages.
Map(t) ==
  /\ step[t] = "map"
  /\ LengthsFit(t)
  /\ \E r \in Addresses :
       /\ r % PageSize = 0
       /\ Stretch(r, OverLen(t)) \subseteq Addresses
       /\ \A a \in Stretch(r, OverLen(t)) : mapper[a] = Nobody
       /\ raw' = [raw EXCEPT ![t] = r]
       /\ mapper' = [a \in Addresses |-> IF a \in Stretch(r, OverLen(t)) THEN t ELSE mapper[a]]
  /\ GoesOn(t, "trim head")
  /\ UNCHANGED <<blocks, base, leaks>>

\* A length that wraps, or MAP_FAILED: the heap has to do.
MapRefused(t) ==
  /\ step[t] = "map"
  /\ GoesOn(t, "heap")
  /\ UNCHANGED <<mapper, blocks, raw, base, leaks>>

\* Keeps the head.
TrimHeadMutant(t) ==
  /\ step[t] = "trim head"
  /\ base' = [base EXCEPT ![t] = raw[t] + HeadLength(t)]
  /\ GoesOn(t, "trim tail")
  /\ UNCHANGED <<mapper, blocks, raw, leaks>>

\* munmap(raw, head), unless head is 0.
TrimHead(t) ==
  /\ step[t] = "trim head"
  /\ base' = [base EXCEPT ![t] = raw[t] + HeadLength(t)]
  /\ IF HeadLength(t) # 0 THEN Unmaps(t, raw[t], HeadLength(t), "trim tail")
     ELSE GoesOn(t, "trim tail") /\ UNCHANGED <<mapper, leaks>>
  /\ UNCHANGED <<blocks, raw>>

\* munmap(base + len, tail); tail is never 0, since head < align.
TrimTail(t) ==
  /\ step[t] = "trim tail"
  /\ Unmaps(t, base[t] + MappedLen(t), TailLength(t), "advise")
  /\ UNCHANGED <<blocks, raw, base>>

\* advise_huge: the arena is the same whatever madvise answers.
Advise(t) ==
  /\ step[t] = "advise"
  /\ GoesOn(t, "mapped")
  /\ UNCHANGED <<mapper, blocks, raw, base, leaks>>

\* alloc_zeroed gives memory of its own, or null: MemoryAllocationError.
HeapAllocate(t) ==
  /\ step[t] = "heap"
  /\ \/ GoesOn(t, "heap arena") /\ UNCHANGED <<blocks, raw, base>>
     \/ GoesOn(t, "idle") /\ Forget(t)
  /\ UNCHANGED <<mapper, leaks>>

-----------------------------------------------------------------------------
(* Drop for Arena                                                            *)

\* The wipe of the visible window, up to all of the arena.
Wipe(t) ==
  /\ step[t] \in {"mapped", "heap arena"}
  /\ GoesOn(t, IF step[t] = "mapped" THEN "unmap" ELSE "dealloc")
  /\ UNCHANGED <<mapper, blocks, raw, base, leaks>>

\* unmap(base, len), with what map_aligned returned.
Unmap(t) ==
  /\ step[t] = "unmap"
  /\ Unmaps(t, base[t], MappedLen(t), "idle")
  /\ Forget(t)

Dealloc(t) ==
  /\ step[t] = "dealloc"
  /\ GoesOn(t, "idle")
  /\ Forget(t)
  /\ UNCHANGED <<mapper, leaks>>

MemoryNext ==
  \E t \in Threads :
    \/ Ask(t) \/ Map(t) \/ MapRefused(t) \/ TrimHead(t) \/ TrimTail(t) \/ Advise(t)
    \/ HeapAllocate(t)
    \/ Wipe(t) \/ Unmap(t) \/ Dealloc(t)

MemorySpec == MemoryInit /\ [][MemoryNext]_memoryVars

-----------------------------------------------------------------------------
MappedBy(t) == {a \in Addresses : mapper[a] = t}
Aligned(t) == step[t] \in {"trim tail", "advise", "mapped", "unmap"}

\* From the moment an arena is aligned until it is unmapped, every block of it is
\* mapped, by its own thread, and it begins on a huge page: no trim, its own or a
\* neighbour's, and no unmap of another arena reaches into it.
ArenaStaysMapped ==
  \A t \in Threads :
    Aligned(t) =>
      /\ base[t] % HugePage = 0
      /\ \A a \in Stretch(base[t], blocks[t]) : a \in Addresses /\ mapper[a] = t

\* While the kernel cuts holes, a thread keeps its arena, rounded up to a page,
\* and nothing else: no slack stays mapped, and nothing once the arena is gone.
SlackGivenBack ==
  \A t \in Threads :
    leaks[t] = 0 =>
      /\ step[t] \in {"advise", "mapped", "unmap"} =>
           MappedBy(t) = Stretch(base[t], MappedLen(t))
      /\ step[t] \notin {"trim head", "trim tail", "advise", "mapped", "unmap"} =>
           MappedBy(t) = {}
=============================================================================
