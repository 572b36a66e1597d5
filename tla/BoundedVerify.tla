--------------------------- MODULE BoundedVerify ---------------------------
(***************************************************************************)
(* Argon2::verify_encoded_bounded of src/src/core.rs: a string of unknown  *)
(* origin is decoded and hashed only if it stays below a ceiling.          *)
(*                                                                         *)
(* The steps are those of the function and of decode_bounded.  Spent is    *)
(* what the call has asked of the machine so far.                          *)
(***************************************************************************)
EXTENDS PhcString

CONSTANTS
  Texts,           \* the strings that may be presented
  Ceilings,        \* the ceilings they are held to
  BoundedMaxSalt   \* BOUNDED_MAX_SALT_LEN

\* A ceiling is a Params, which only build makes.
ASSUME BoundedVerifyAssumption ==
  /\ Texts \subseteq Text
  /\ Ceilings \subseteq Params
  /\ \A c \in Ceilings : BuildError(c) = "none"
  /\ BoundedMaxSalt \in Nat
  /\ BoundedMaxSalt >= MinSaltLen

VARIABLES
  encoded,       \* the argument encoded
  algorithm,     \* the argument algorithm
  ceiling,       \* the argument ceiling
  longPassword,  \* whether the password is longer than MAX_PWD_LENGTH
  phase,         \* what has been done
  decoded,       \* what decode_string returned
  outcome,       \* what the call returns
  spent          \* buffers reserved to decode, and what the hash takes

vars == <<encoded, algorithm, ceiling, longPassword, phase, decoded, outcome, spent>>

args == <<encoded, algorithm, ceiling, longPassword>>

Nothing == [buffers |-> 0, blocks |-> 0, passes |-> 0, lanes |-> 0, workers |-> 0, tag |-> 0]

MaxEncoded ==
  EncodedLen(algorithm, ceiling.t, ceiling.m, ceiling.lanes, BoundedMaxSalt, ceiling.tag)

Init ==
  /\ encoded \in Texts /\ algorithm \in Names /\ ceiling \in Ceilings
  /\ longPassword \in BOOLEAN
  /\ phase = "called"
  /\ decoded = Fail("not decoded")
  /\ outcome = "none"
  /\ spent = Nothing

Returns(result) == phase' = "done" /\ outcome' = result

RefusePassword ==
  /\ phase = "called" /\ longPassword
  /\ Returns("PwdTooLong")
  /\ UNCHANGED <<args, decoded, spent>>

\* The gate, before anything is parsed.
RefuseLength ==
  /\ phase = "called" /\ ~longPassword
  /\ TextLen(encoded) > MaxEncoded
  /\ Returns("DecodingLengthFail")
  /\ UNCHANGED <<args, decoded, spent>>

\* decode_bin reserves for the salt once the head has been read (of a text that is not
\* too long), and for the tag after the salt.
DecodeBuffers ==
  IF ~StrictHead(encoded, algorithm) THEN 0
  ELSE Reserves(TailLen(encoded))
       + (IF encoded.salt = Malformed THEN 0
          ELSE Reserves(TailLen(encoded) - Base64Len(encoded.salt) - 1))

\* A plausible bug, which no specification uses: the length is looked at later.
PassGateMutant == phase = "called" /\ ~longPassword

PassGate == phase = "called" /\ ~longPassword /\ TextLen(encoded) <= MaxEncoded

Decode ==
  /\ PassGate
  /\ decoded' = DecodeString(encoded, algorithm)
  /\ spent' = [spent EXCEPT !.buffers = DecodeBuffers]
  /\ IF Decodes(decoded') THEN phase' = "decoded" /\ UNCHANGED outcome
     ELSE Returns(decoded'.error)
  /\ UNCHANGED args

\* A buffer of decode_bin is refused; one that was given is given back.
DecodeOutOfMemory ==
  /\ PassGate /\ StrictHead(encoded, algorithm)
  /\ Returns("MemoryAllocationError")
  /\ UNCHANGED <<args, decoded, spent>>

\* The checks of the decoded costs against the ceiling, in their order.
Excess ==
  IF decoded.params.tag > ceiling.tag THEN "OutputTooLong"
  ELSE IF decoded.params.m > ceiling.m THEN "MemoryTooMuch"
  ELSE IF decoded.params.t > ceiling.t THEN "TimeTooLarge"
  ELSE IF decoded.params.lanes > ceiling.lanes THEN "LanesTooMany"
  ELSE "none"

RefuseExcess ==
  /\ phase = "decoded" /\ Excess # "none"
  /\ Returns(Excess)
  /\ UNCHANGED <<args, decoded, spent>>

\* A plausible bug, which no specification uses: threads stay what lanes are.
ClampedMutant == decoded.params.threads

\* ceiling.threads().min(lanes)
Clamped ==
  IF ceiling.threads < decoded.params.lanes THEN ceiling.threads ELSE decoded.params.lanes

\* The clamp of the thread budget, rebuilt through build.
ClampThreads ==
  LET p == [decoded.params EXCEPT !.threads = Clamped]
  IN  /\ phase = "decoded" /\ Excess = "none"
      /\ IF BuildError(p) = "none"
         THEN /\ decoded' = [decoded EXCEPT !.params = p]
              /\ phase' = "bounded"
              /\ UNCHANGED outcome
         ELSE Returns(BuildError(p)) /\ UNCHANGED decoded
      /\ UNCHANGED <<args, spent>>

\* Argon2::verify: hash into a buffer of the tag's length, validated again, and
\* compare.
Verify ==
  LET p == decoded.params
      invalid == ValidateInputs(p.tag, decoded.salt, 0, p.m, p.t, p.lanes, p.threads)
  IN  /\ phase = "bounded"
      /\ IF invalid = "none"
         THEN /\ spent' = [spent EXCEPT !.blocks = MemoryBlocks(p), !.passes = p.t,
                                        !.lanes = p.lanes,
                                        !.workers = EffectiveThreads(p), !.tag = p.tag]
              /\ \E result \in {"Ok", "VerifyMismatch"} : Returns(result)
         ELSE Returns(invalid) /\ UNCHANGED spent
      /\ UNCHANGED <<args, decoded>>

\* The buffer for the tag, or the arena, is refused.
VerifyOutOfMemory ==
  /\ phase = "bounded"
  /\ Returns("MemoryAllocationError")
  /\ UNCHANGED <<args, decoded, spent>>

Next ==
  \/ RefusePassword \/ RefuseLength
  \/ Decode \/ DecodeOutOfMemory
  \/ RefuseExcess \/ ClampThreads
  \/ Verify \/ VerifyOutOfMemory
  \/ phase = "done" /\ UNCHANGED vars

Spec == Init /\ [][Next]_vars

-----------------------------------------------------------------------------
Hashed == outcome \in {"Ok", "VerifyMismatch"}

\* Type invariant.  What is decoded is built, whatever the string, so the checks
\* against the ceiling and the layout can rely on it, and its threads are its lanes
\* until they are clamped.
BoundedVerifyTypeOK ==
  /\ encoded \in Text /\ algorithm \in Names /\ ceiling \in Ceilings
  /\ phase \in {"called", "decoded", "bounded", "done"}
  /\ phase \in {"decoded", "bounded"} =>
       decoded \in Decodings /\ BuildError(decoded.params) = "none"
  /\ phase = "decoded" => decoded.params.threads = decoded.params.lanes
  /\ \A k \in DOMAIN Nothing : spent[k] \in Nat

\* A hash is never run with more memory, passes, lanes or worker threads than the
\* ceiling, or into a longer tag (decode_bounded: "A ceiling is four numbers, and
\* all four now mean something", and threads).
WithinCeiling ==
  /\ spent.blocks <= ceiling.m
  /\ spent.passes <= ceiling.t
  /\ spent.lanes <= ceiling.lanes
  /\ spent.workers <= ceiling.threads
  /\ spent.tag <= ceiling.tag

\* Decoding reserves no more than strings of the length the ceiling allows need,
\* however long the string that was presented (decode_bounded: "Why the length
\* gate comes first").
DecodeIsGated == spent.buffers <= 2 * Reserves(MaxEncoded)

\* No string that encode_string writes below the ceiling is refused for what it
\* says, with a salt of up to BOUNDED_MAX_SALT_LEN: the gate and the ceiling have no
\* false alarms (decode_bounded: "The longest string the ceiling could have
\* produced").  The decoder has one: a tag of some 3 GiB makes a text longer than
\* u32::MAX, which encode_string writes, the gate of such a ceiling lets through, and
\* decode_string refuses.
OwnStringsPass ==
  phase = "done" /\ ~longPassword
    /\ encoded.name = algorithm /\ Encoded(encoded)
    /\ encoded.salt <= BoundedMaxSalt /\ encoded.tag <= ceiling.tag
    /\ encoded.fields[1].value <= ceiling.m /\ encoded.fields[2].value <= ceiling.t
    /\ encoded.fields[3].value <= ceiling.lanes
  => IF TooLong(encoded) THEN outcome = "DecodingFail"
     ELSE Hashed \/ outcome = "MemoryAllocationError"

\* The two decoders never disagree about a string: what decode_string accepts,
\* decode_phc accepts with the same meaning, and what decode_phc accepts has one
\* meaning, that of the string encode_string writes for it, unless writing the
\* version makes that one too long.
DecodersAgree ==
  LET strict == DecodeString(encoded, algorithm)
      phc == DecodePhc(encoded)
      own == EncodeString(phc.name, phc.version, phc.params, phc.salt, phc.params.tag)
  IN  /\ Decodes(strict) => phc = strict
      /\ Decodes(phc) =>
           DecodeString(own, phc.name) =
             IF TooLong(own) THEN Fail("DecodingFail") ELSE [phc EXCEPT !.ad = 0]
=============================================================================
