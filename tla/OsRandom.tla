------------------------------ MODULE OsRandom ------------------------------
(***************************************************************************)
(* The salt of hash_password_with_random_salt: os_random of random.rs with *)
(* the source of each platform, and the hash that begins once it returned. *)
(*                                                                         *)
(* A byte is only known by who wrote it last: the salt starts as zeros,    *)
(* and the operating system fills in its own.  What a system call answers  *)
(* and how the program takes the answer are two steps, so that a call that *)
(* makes no progress may be repeated for ever.                             *)
(***************************************************************************)
EXTENDS Integers

CONSTANTS
  SaltLengths,     \* lengths of the buffer
  EntropyMax,      \* the most one getentropy call gives: 256
  MaxInterrupts    \* bound on the signals that arrive during one draw

ASSUME OsRandomAssumption ==
  /\ SaltLengths \subseteq Nat
  /\ EntropyMax \in Nat \ {0}
  /\ MaxInterrupts \in Nat

\* getrandom of Linux; getentropy of macOS and OpenBSD; /dev/urandom of other
\* unixes; one call of CommonCrypto, ProcessPrng or WASI; no source.
Platforms == {"getrandom", "getentropy", "urandom", "one call", "none"}

VARIABLES
  platform,
  saltLen,
  salt,        \* who wrote each byte: "caller" or "os"
  done,        \* bytes the loop counts as written
  answer,      \* what the last system call returned
  interrupts,  \* signals so far
  draw         \* where the call is

drawVars == <<platform, saltLen, salt, done, answer, interrupts, draw>>

Written(positions) == [i \in 1 .. saltLen |-> IF i \in positions THEN "os" ELSE salt[i]]

DrawInit ==
  /\ platform \in Platforms
  /\ saltLen \in SaltLengths
  /\ salt = [i \in 1 .. saltLen |-> "caller"]
  /\ done = 0
  /\ answer = [rc |-> "none"]
  /\ interrupts = 0
  /\ draw = "begin"

-----------------------------------------------------------------------------
(* The operating system's side, external to the repository                   *)

Answers(a) ==
  /\ answer' = a
  /\ draw' = "returned"
  /\ UNCHANGED <<platform, saltLen, done>>

\* getrandom: any positive number of bytes up to what was asked; none; a signal;
\* or ENOSYS, EPERM and the like.
AnswerGetrandom ==
  /\ draw = "call"
  /\ platform = "getrandom"
  /\ \/ \E n \in 1 .. saltLen - done :
          /\ Answers([rc |-> "bytes", n |-> n])
          /\ salt' = Written(done + 1 .. done + n)
          /\ UNCHANGED interrupts
     \/ Answers([rc |-> "zero"]) /\ UNCHANGED <<salt, interrupts>>
     \/ /\ interrupts < MaxInterrupts
        /\ Answers([rc |-> "EINTR"])
        /\ interrupts' = interrupts + 1
        /\ UNCHANGED salt
     \/ Answers([rc |-> "errno"]) /\ UNCHANGED <<salt, interrupts>>

\* The other calls write all that was asked or fail.
Chunk ==
  IF platform # "getentropy" THEN saltLen - done
  ELSE IF saltLen - done < EntropyMax THEN saltLen - done ELSE EntropyMax

AnswerWhole ==
  /\ draw = "call"
  /\ platform \in {"getentropy", "one call"}
  /\ \/ Answers([rc |-> "success"]) /\ salt' = Written(done + 1 .. done + Chunk)
     \/ Answers([rc |-> "failure"]) /\ UNCHANGED salt
  /\ UNCHANGED interrupts

-----------------------------------------------------------------------------
(* The program's side                                                        *)

Goes(to) ==
  /\ draw' = to
  /\ UNCHANGED <<platform, saltLen, salt, done, answer, interrupts>>

\* os_random is called with a zeroed salt and enters the platform's fill.
EnterFill ==
  /\ draw = "begin"
  /\ Goes(CASE platform = "urandom"                     -> "urandom"
            [] platform = "none"                        -> "error"
            [] platform = "one call"                    -> "call"
            [] platform \in {"getrandom", "getentropy"} -> "loop")

\* while done < buf.len()
LoopTest ==
  /\ draw = "loop"
  /\ Goes(IF done < saltLen THEN "call" ELSE "ok")

\* Counts what was asked instead of what came.
TakeBytesMutant ==
  /\ draw = "returned"
  /\ answer.rc = "bytes"
  /\ done' = saltLen
  /\ draw' = "loop"
  /\ UNCHANGED <<platform, saltLen, salt, answer, interrupts>>

\* rc > 0: done += rc; continue
TakeBytes ==
  /\ draw = "returned"
  /\ answer.rc = "bytes"
  /\ done' = done + answer.n
  /\ draw' = "loop"
  /\ UNCHANGED <<platform, saltLen, salt, answer, interrupts>>

\* Tries again without a limit.
NoProgressMutant ==
  /\ draw = "returned"
  /\ answer.rc = "zero"
  /\ Goes("loop")

\* rc == 0: refuse to spin.
NoProgress ==
  /\ draw = "returned"
  /\ answer.rc = "zero"
  /\ Goes("error")

Interrupted ==
  /\ draw = "returned"
  /\ answer.rc = "EINTR"
  /\ Goes("loop")

\* Any other error: the file fills the buffer from its beginning.
FallBack ==
  /\ draw = "returned"
  /\ answer.rc = "errno" \/ (answer.rc = "failure" /\ platform = "getentropy")
  /\ Goes("urandom")

TakeChunk ==
  /\ draw = "returned"
  /\ answer.rc = "success"
  /\ done' = done + Chunk
  /\ draw' = IF platform = "getentropy" THEN "loop" ELSE "ok"
  /\ UNCHANGED <<platform, saltLen, salt, answer, interrupts>>

OneCallFails ==
  /\ draw = "returned"
  /\ answer.rc = "failure"
  /\ platform = "one call"
  /\ Goes("error")

\* fill_urandom: the file does not open, or ends after some bytes and read_exact
\* fails, or it writes the whole of buf.
FillUrandom ==
  /\ draw = "urandom"
  /\ \E n \in 0 .. saltLen :
       /\ salt' = Written(1 .. n)
       /\ draw' \in {"error"} \cup (IF n = saltLen THEN {"ok"} ELSE {})
  /\ UNCHANGED <<platform, saltLen, done, answer, interrupts>>

\* os_random(&mut salt)? returned Ok, and hash_encoded is called with the salt.
Hash ==
  /\ draw = "ok"
  /\ Goes("hash")

DrawStep ==
  \/ EnterFill \/ LoopTest
  \/ TakeBytes \/ NoProgress \/ Interrupted \/ FallBack \/ TakeChunk \/ OneCallFails
  \/ FillUrandom
  \/ Hash

DrawNext == AnswerGetrandom \/ AnswerWhole \/ DrawStep

DrawSpec == DrawInit /\ [][DrawNext]_drawVars /\ WF_drawVars(DrawNext)

-----------------------------------------------------------------------------
DrawTypeOK ==
  /\ platform \in Platforms
  /\ saltLen \in SaltLengths
  /\ salt \in [1 .. saltLen -> {"caller", "os"}]
  /\ done \in 0 .. saltLen
  /\ answer \in [rc : {"none", "zero", "EINTR", "errno", "success", "failure"}]
                  \cup [rc : {"bytes"}, n : 1 .. saltLen]
  /\ interrupts \in 0 .. MaxInterrupts
  /\ draw \in {"begin", "loop", "call", "returned", "urandom", "ok", "error", "hash"}

\* No hash begins over a salt of which the operating system has not written every
\* byte: not after short reads, signals, a fallback half way through the buffer,
\* or a source that refused.
DrawIsWhole ==
  draw = "hash" => \A i \in 1 .. saltLen : salt[i] = "os"

\* A draw ends, with a salt or an error, however the system calls answer, as long
\* as only finitely many signals arrive.
DrawEnds == draw # "begin" ~> draw \in {"hash", "error"}
=============================================================================
