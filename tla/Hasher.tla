------------------------------- MODULE Hasher -------------------------------
(***************************************************************************)
(* Hasher of src/src/core.rs: a configuration and a Workspace.  Its own    *)
(* hashes run over the pooled arena; a string to verify brings parameters  *)
(* of its own, and runs over the pooled arena only when it needs no more   *)
(* than the owner of the hasher has asked for, else over a private arena   *)
(* that is dropped.                                                        *)
(*                                                                         *)
(* Every change to memory is an action of Workspace: a call is acquire (or *)
(* Arena::new), set_workers, the stores of the fill, and the drop of the   *)
(* guard (or the arena), on success, on error and on unwind.               *)
(***************************************************************************)
EXTENDS Workspace

VARIABLES
  config,   \* the params of Hasher::argon2
  call,     \* the hash under way, and where it is
  asked     \* history: the largest size of a configuration the owner set

hasherVars == <<wsVars, config, call, asked>>

\* Params, as far as memory goes: memory_blocks and threads.
Params == [blocks : 1 .. MaxBlocks + 1, threads : ThreadCounts]

Idle == [at |-> "idle"]
Call == [at : {"acquired", "sized", "leaving"}, kind : Loans, params : Params]

HasherInit ==
  /\ Init
  /\ config \in Params
  /\ call = Idle
  /\ asked = config.blocks

-----------------------------------------------------------------------------
(* The owner's calls *)

SetArgon2(params) ==
  /\ call = Idle
  /\ ~unwinding
  /\ config' = params
  /\ asked' = IF params.blocks > asked THEN params.blocks ELSE asked
  /\ UNCHANGED <<wsVars, call>>

HasherReserve ==
  /\ call = Idle
  /\ \/ ReserveKeeps(config.blocks)
     \/ ReserveGrows(config.blocks)
     \/ GrowthFails(config.blocks)
  /\ UNCHANGED <<config, call, asked>>

HasherClear ==
  /\ call = Idle
  /\ Clear
  /\ UNCHANGED <<config, call, asked>>

-----------------------------------------------------------------------------
(* hash_in_workspace and hash_owned *)

\* Takes the capacity the machine has for the ceiling.
PooledCeilingMutant == MaxBlocks

\* pooled_ceiling: the largest arena that parameters from outside may use.
PooledCeiling ==
  IF parked.cap > config.blocks THEN parked.cap ELSE config.blocks

\* Workspace::acquire for a hash with these parameters; it fails when the size
\* has no layout or the allocator refuses.
AcquirePooled(params) ==
  \/ /\ \/ AcquireParked(params.blocks, "guard")
        \/ AcquireGrows(params.blocks, "guard")
     /\ call' = [at |-> "acquired", kind |-> "guard", params |-> params]
  \/ /\ \/ ReserveKeeps(params.blocks) /\ parked.cap < params.blocks
        \/ GrowthFails(params.blocks)
     /\ UNCHANGED call

\* hash_into and the other methods that use the hasher's own configuration.
HashOwn ==
  /\ call = Idle
  /\ AcquirePooled(config)
  /\ UNCHANGED <<config, asked>>

\* verify_encoded and its variants: parameters decoded from the string.
VerifyPooled(params) ==
  /\ call = Idle
  /\ params.blocks <= PooledCeiling
  /\ AcquirePooled(params)
  /\ UNCHANGED <<config, asked>>

\* A string that asks for more runs as a one-shot hash; Arena::new may fail,
\* which changes nothing.
VerifyPrivate(params) ==
  /\ call = Idle
  /\ params.blocks > PooledCeiling
  /\ AllocateOwned(params.blocks)
  /\ call' = [at |-> "acquired", kind |-> "owned", params |-> params]
  /\ UNCHANGED <<config, asked>>

\* hash_in_arena: set_workers, ...
SizeWipe ==
  /\ call.at = "acquired"
  /\ SetWorkers(call.kind, call.params.threads)
  /\ call' = [call EXCEPT !.at = "sized"]
  /\ UNCHANGED <<config, asked>>

\* ... an error of initial_hash_into before anything was stored, ...
HashFailsEarly ==
  /\ call.at = "sized"
  /\ call' = [call EXCEPT !.at = "leaving"]
  /\ UNCHANGED <<wsVars, config, asked>>

\* ... or the stores of fill_first_blocks and of the fill: all of the blocks, or
\* some of them when the fill fails or panics.
HashStores ==
  /\ call.at = "sized"
  /\ \E blocks \in SUBSET (0 .. MaxBlocks - 1) : Write(call.kind, blocks)
  /\ call' = [call EXCEPT !.at = "leaving"]
  /\ UNCHANGED <<config, asked>>

HashPanics ==
  /\ call # Idle
  /\ Panic
  /\ call' = [call EXCEPT !.at = "leaving"]
  /\ UNCHANGED <<config, asked>>

\* Frees the pooled arena as if it were private.
LeaveMutant ==
  /\ call.at = "leaving"
  /\ IF call.kind = "guard" THEN ForgetGuard ELSE DropOwned
  /\ call' = Idle
  /\ UNCHANGED <<config, asked>>

\* The guard or the private arena is dropped on the way out.
Leave ==
  /\ call.at = "leaving"
  /\ IF call.kind = "guard" THEN DropGuard ELSE DropOwned
  /\ call' = Idle
  /\ UNCHANGED <<config, asked>>

\* The owner catches a panic and goes on using the hasher.
CatchPanic ==
  /\ call = Idle
  /\ Catch
  /\ UNCHANGED <<config, call, asked>>

HasherNext ==
  \/ \E params \in Params : SetArgon2(params)
  \/ HasherReserve
  \/ HasherClear
  \/ HashOwn
  \/ \E params \in Params : VerifyPooled(params) \/ VerifyPrivate(params)
  \/ SizeWipe
  \/ HashFailsEarly
  \/ HashStores
  \/ HashPanics
  \/ Leave
  \/ CatchPanic

HasherSpec == HasherInit /\ [][HasherNext]_hasherVars

-----------------------------------------------------------------------------
\* No ratchet: no string to verify makes the hasher hold on to more memory than
\* the owner has at some time asked for.
NoRatchet == parked.cap <= asked /\ loan["guard"].cap <= asked

\* Between calls the pooled arena is back, or was lost to a failed growth; a
\* private arena is gone; and with zeroize-memory what is kept is all zero.
AtRest ==
  call = Idle =>
    /\ \A k \in Loans : loan[k] = NoArena
    /\ zeroizeMemory => parked.dirty = {}

\* The pooled arena is lost only to clear, or to an allocation that failed for a
\* size within what the owner asked for: not to a panic, not to an error, and not
\* to a string that asks for the impossible.
PoolSize == IF parked.cap > loan["guard"].cap THEN parked.cap ELSE loan["guard"].cap

PoolOutlivesCalls ==
  [][PoolSize' < PoolSize =>
       Clear \/ \E n \in 1 .. asked : GrowthFails(n)]_hasherVars
=============================================================================
