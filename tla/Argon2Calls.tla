---------------------------- MODULE Argon2Calls ----------------------------
(***************************************************************************)
(* One call of the public interface of src/src/core.rs, of an Argon2 or of *)
(* a Hasher, from its arguments to what it returns: hash_into, hash,       *)
(* hash_encoded, verify, verify_encoded and hash_traced, all over          *)
(* hash_in_arena.  It is about the values that flow through a call and     *)
(* about what it leaves behind; the memory is Workspace's and Hasher's,    *)
(* the fill MatrixFill's and FillPool's, the text PhcString's.             *)
(*                                                                         *)
(* Everything after the initial hash is a function of it, so a digest (H0, *)
(* a block derived from it, a tag) is the sequence of bytes that was       *)
(* hashed.  A buffer is Zeros, what its caller had in it, or a digest.     *)
(***************************************************************************)
EXTENDS Integers, Sequences

CONSTANTS
  Configs,       \* what an Argon2 is made of: its parameters, version and algorithm
  Passwords, Salts, Secrets, Datas,   \* byte sequences
  LengthWord,    \* lengths are hashed as u32, 2^32 in the code
  MinSalt        \* MIN_SALT_LEN, 8 in the code

Costs == {"lanes", "tag", "memory", "passes", "version", "algorithm"}

\* All of a Config is u32, or an enum that is hashed as one.
ASSUME Argon2CallsAssumption ==
  /\ LengthWord \in Nat \ {0}
  /\ MinSalt \in Nat
  /\ \A c \in Configs : DOMAIN c = Costs \cup {"threads"} /\ \A k \in Costs : c[k] \in Nat
  /\ Passwords \subseteq Seq(Nat)
  /\ Salts \subseteq Seq(Nat)
  /\ Secrets \subseteq Seq(Nat)
  /\ Datas \subseteq Seq(Nat)

\* What a tag is computed from.
Source ==
  [config : Configs, pwd : Passwords, salt : Salts, secret : Secrets, ad : Datas]

Verifying == {"verify", "verify_encoded"}
Allocating == Verifying \cup {"hash", "hash_encoded"}
Apis == Allocating \cup {"hash_into", "hash_traced"}

VARIABLES
  zeroizeMemory,  \* whether the build has the feature zeroize-memory
  call,           \* the arguments
  stage,          \* where the call is
  used,           \* what it hashes
  tagBuf,         \* the buffer for the tag: out, or one of the call's own
  seed,           \* blockhash of hash_in_arena
  copy,           \* h0 of hash_traced
  inner,          \* what hash_in_arena, or what came before it, returned
  outcome         \* what the call returns

callVars == <<zeroizeMemory, call, stage, used, tagBuf, seed, copy, inner, outcome>>

Zeros == <<>>
Theirs == <<"theirs">>

\* An input after its length, `len as u32`.
Prefixed(data) == <<Len(data) % LengthWord>> \o data

CostWords(config) ==
  <<config.lanes, config.tag, config.memory, config.passes, config.version, config.algorithm>>

\* A bug in the message that is hashed: one length is missing.
StreamMutant(source) ==
  CostWords(source.config)
    \o (Prefixed(source.pwd) \o (source.salt \o (Prefixed(source.secret) \o Prefixed(source.ad))))

\* initial_hash_into: six u32, then the four inputs.
Stream(source) ==
  CostWords(source.config)
    \o (Prefixed(source.pwd) \o (Prefixed(source.salt)
                                 \o (Prefixed(source.secret) \o Prefixed(source.ad))))

\* validate_for, for parameters that were built: only the lengths can be wrong.
LengthError(source) ==
  IF Len(source.pwd) >= LengthWord THEN "PwdTooLong"
  ELSE IF Len(source.salt) < MinSalt THEN "SaltTooShort"
  ELSE IF Len(source.salt) >= LengthWord THEN "SaltTooLong"
  ELSE IF Len(source.secret) >= LengthWord THEN "SecretTooLong"
  ELSE IF Len(source.ad) >= LengthWord THEN "AdTooLong"
  ELSE "none"

\* What a tag can have been made from.
Hashable == {source \in Source : LengthError(source) = "none"}

\* clear_internal_memory
Cleared(buffer) == IF zeroizeMemory THEN Zeros ELSE buffer

\* The arguments.  inputs are what the caller means to hash; verify_encoded has the
\* config and the salt in its text, whatever the object (own) is configured to.
\* expected is what the tag to compare with was made from, {} if from nothing.
CallInit ==
  /\ zeroizeMemory \in BOOLEAN
  /\ \E api \in Apis, inputs \in Source :
       /\ call \in [api : {api}, inputs : {inputs},
                    own : IF api = "verify_encoded" THEN Configs ELSE {inputs.config},
                    fits : IF api \in Allocating THEN {TRUE} ELSE BOOLEAN,
                    decodes : IF api = "verify_encoded" THEN BOOLEAN ELSE {TRUE},
                    expected : IF api \in Verifying THEN {{}} \cup {{s} : s \in Hashable}
                               ELSE {{}}]
  /\ stage = "called"
  /\ used = [call.inputs EXCEPT !.config = call.own]
  /\ tagBuf = IF call.api \in Allocating THEN Zeros ELSE Theirs
  /\ seed = Zeros
  /\ copy = Zeros
  /\ inner = "none"
  /\ outcome = "none"

Over(result) == stage' = "over" /\ outcome' = result

\* verify_encoded: the password first, then the text.
RefusePwd ==
  /\ stage = "called" /\ call.api = "verify_encoded"
  /\ Len(call.inputs.pwd) >= LengthWord
  /\ Over("PwdTooLong")
  /\ UNCHANGED <<zeroizeMemory, call, used, tagBuf, seed, copy, inner>>

DecodeText ==
  /\ stage = "called" /\ call.api = "verify_encoded"
  /\ Len(call.inputs.pwd) < LengthWord
  /\ \/ /\ call.decodes
        /\ used' = call.inputs
        /\ stage' = "ready"
        /\ UNCHANGED outcome
     \/ /\ ~call.decodes
        /\ Over("DecodingFail")
        /\ UNCHANGED used
     \/ Over("MemoryAllocationError") /\ UNCHANGED used
  /\ UNCHANGED <<zeroizeMemory, call, tagBuf, seed, copy, inner>>

Begin ==
  /\ stage = "called" /\ call.api # "verify_encoded"
  /\ stage' = "ready"
  /\ UNCHANGED <<zeroizeMemory, call, used, tagBuf, seed, copy, inner, outcome>>

\* try_zeroed_vec, where the call has its own buffer; it may be refused.
TryZeroedVec ==
  /\ stage = "ready"
  /\ \/ stage' = "sized" /\ UNCHANGED outcome
     \/ call.api \in Allocating /\ Over("MemoryAllocationError")
  /\ UNCHANGED <<zeroizeMemory, call, used, tagBuf, seed, copy, inner>>

-----------------------------------------------------------------------------
(* hash_inner, hash_owned and hash_in_workspace                              *)

\* The hash has failed; the call still has to return.
Fails(error) == stage' = "hashed" /\ inner' = error

ValidateAndSize ==
  /\ stage = "sized"
  /\ \/ LengthError(used) # "none" /\ Fails(LengthError(used))
     \/ LengthError(used) = "none" /\ ~call.fits /\ Fails("OutPtrMismatch")
     \/ LengthError(used) = "none" /\ call.fits /\ stage' = "valid" /\ UNCHANGED inner
  /\ UNCHANGED <<zeroizeMemory, call, used, tagBuf, seed, copy, outcome>>

\* Arena::new, or acquire of the workspace.
GetArena ==
  /\ stage = "valid"
  /\ \/ stage' = "arena" /\ UNCHANGED inner
     \/ Fails("MemoryAllocationError")
  /\ UNCHANGED <<zeroizeMemory, call, used, tagBuf, seed, copy, outcome>>

\* The initial hash and its copy for a trace.  Its length is legal, so that it cannot
\* fail, and the arena has the size of the same parameters.
InitialHash ==
  /\ stage = "arena"
  /\ seed' = Stream(used)
  /\ copy' = IF call.api = "hash_traced" THEN Stream(used) ELSE copy
  /\ stage' = "seeded"
  /\ UNCHANGED <<zeroizeMemory, call, used, tagBuf, inner, outcome>>

\* fill_first_blocks, after which the seed is not needed.
FillFirst ==
  /\ stage = "seeded"
  /\ seed' = Cleared(seed)
  /\ stage' = "firsts"
  /\ UNCHANGED <<zeroizeMemory, call, used, tagBuf, copy, inner, outcome>>

\* fill_memory_blocks_traced.  A panic (of the trace, if there is one) leaves the call.
Fill ==
  /\ stage = "firsts"
  /\ \/ stage' = "filled" /\ UNCHANGED outcome
     \/ Over("panic")
  /\ UNCHANGED <<zeroizeMemory, call, used, tagBuf, seed, copy, inner>>

\* finalize writes the tag, and the arena is wiped and gone, or back in its workspace.
FinalizeTag ==
  /\ stage = "filled"
  /\ tagBuf' = Stream(used)
  /\ stage' = "hashed"
  /\ inner' = "Ok"
  /\ UNCHANGED <<zeroizeMemory, call, used, seed, copy, outcome>>

-----------------------------------------------------------------------------
(* What each entry point does with it                                        *)

ReturnHash ==
  /\ stage = "hashed" /\ call.api \in {"hash_into", "hash"}
  /\ Over(inner)
  /\ UNCHANGED <<zeroizeMemory, call, used, tagBuf, seed, copy, inner>>

\* H0 leaves hash_traced only if there was no error.
ReturnTraced ==
  /\ stage = "hashed" /\ call.api = "hash_traced"
  /\ copy' = IF inner = "Ok" THEN copy ELSE Cleared(copy)
  /\ Over(inner)
  /\ UNCHANGED <<zeroizeMemory, call, used, tagBuf, seed, inner>>

\* A bug in hash_encoded: `?` before the tag is cleared.
EncodeTagMutant ==
  /\ stage = "hashed" /\ call.api = "hash_encoded"
  /\ \/ inner # "Ok" /\ Over(inner) /\ UNCHANGED tagBuf
     \/ inner = "Ok" /\ Over("Ok") /\ tagBuf' = Cleared(tagBuf)
     \/ inner = "Ok" /\ Over("MemoryAllocationError") /\ UNCHANGED tagBuf
  /\ UNCHANGED <<zeroizeMemory, call, used, seed, copy, inner>>

\* hash_encoded: encode_string_alloc, whose buffer may be refused, and then the tag
\* is cleared.
EncodeTag ==
  /\ stage = "hashed" /\ call.api = "hash_encoded"
  /\ \/ inner # "Ok" /\ Over(inner) /\ UNCHANGED tagBuf
     \/ /\ inner = "Ok"
        /\ \E encoded \in {"Ok", "MemoryAllocationError"} : Over(encoded)
        /\ tagBuf' = Cleared(tagBuf)
  /\ UNCHANGED <<zeroizeMemory, call, used, seed, copy, inner>>

\* constant_time_eq of the tag with the one that is expected.
Matched == inner = "Ok" /\ \E source \in call.expected : Stream(source) = tagBuf

\* verify and verify_encoded: compare, clear, and only then return.
CompareTags ==
  /\ stage = "hashed" /\ call.api \in Verifying
  /\ tagBuf' = Cleared(tagBuf)
  /\ Over(IF inner # "Ok" THEN inner ELSE IF Matched THEN "Ok" ELSE "VerifyMismatch")
  /\ UNCHANGED <<zeroizeMemory, call, used, seed, copy, inner>>

CallNext ==
  \/ RefusePwd \/ DecodeText \/ Begin \/ TryZeroedVec
  \/ ValidateAndSize \/ GetArena \/ InitialHash \/ FillFirst \/ Fill \/ FinalizeTag
  \/ ReturnHash \/ ReturnTraced \/ EncodeTag \/ CompareTags
  \/ stage = "over" /\ UNCHANGED callVars

CallSpec == CallInit /\ [][CallNext]_callVars

-----------------------------------------------------------------------------
\* A verification succeeds only for the very password, salt, secret, associated data
\* and costs the expected tag was made from, and fails as a mismatch for none of them;
\* the thread budget does not matter.  No two different sources are one message to the
\* initial hash, and a text is verified with its own parameters.
VerifiesExactly ==
  stage = "over" /\ call.api \in Verifying =>
    LET Same(source) ==
          /\ \A k \in Costs : source.config[k] = call.inputs.config[k]
          /\ \A k \in {"pwd", "salt", "secret", "ad"} : source[k] = call.inputs[k]
        made == \E source \in call.expected : Same(source)
    IN  /\ outcome = "Ok" => made
        /\ outcome = "VerifyMismatch" => ~made

\* With zeroize-memory, a call that is over leaves no digest in memory but the one it
\* hands over, and hands one over only if it succeeded; a caller's buffer is as it was
\* after an error or a panic.  (Only a trace that panics leaves the copy of H0.)
LeavesNoSecret ==
  stage = "over" =>
    /\ zeroizeMemory => seed = Zeros
    /\ zeroizeMemory /\ outcome # "panic" /\ ~(call.api = "hash_traced" /\ outcome = "Ok")
         => copy = Zeros
    /\ zeroizeMemory /\ call.api \in Allocating /\ ~(call.api = "hash" /\ outcome = "Ok")
         => tagBuf = Zeros
    /\ call.api \notin Allocating /\ outcome # "Ok" => tagBuf = Theirs
=============================================================================
