----------------------------- MODULE MCSingles -----------------------------
(* Parts of the program that share no state with each other, one of them in   *)
(* each behaviour.  Three are what it asks of the operating system: threads   *)
(* for a striped wipe, memory for the arenas, bytes for a salt; the system    *)
(* may refuse, interrupt or half do any of it.  The fourth is a bounded       *)
(* verification.                                                              *)
EXTENDS StripeWipe, OsMemory, OsRandom, MCBoundedVerify, TLC

VARIABLE part   \* which one: "wipe", "memory", "random" or "verify"

ModelThreads == {"one", "two"}

NoWipe == start = 0 /\ len = 1 /\ workers = 1 /\ unit = 1 /\ StripeInit
NoDraw == platform = "none" /\ saltLen = 0 /\ DrawInit
NoVerify ==
  /\ encoded = CHOOSE s \in Texts : TRUE
  /\ algorithm = "argon2id"
  /\ ceiling = CHOOSE c \in Ceilings : TRUE
  /\ longPassword = FALSE
  /\ Init

SinglesInit ==
  \/ part = "wipe" /\ StripeInit /\ MemoryInit /\ NoDraw /\ NoVerify
  \/ part = "memory" /\ MemoryInit /\ NoWipe /\ NoDraw /\ NoVerify
  \/ part = "random" /\ DrawInit /\ NoWipe /\ MemoryInit /\ NoVerify
  \/ part = "verify" /\ Init /\ NoWipe /\ MemoryInit /\ NoDraw

WipePart == part = "wipe" /\ StripeNext /\ UNCHANGED <<part, memoryVars, drawVars, vars>>
MemoryPart == part = "memory" /\ MemoryNext /\ UNCHANGED <<part, stripeVars, drawVars, vars>>
RandomPart == part = "random" /\ DrawNext /\ UNCHANGED <<part, stripeVars, memoryVars, vars>>
VerifyPart == part = "verify" /\ Next /\ UNCHANGED <<part, stripeVars, memoryVars, drawVars>>

DrawIsOver ==
  /\ part = "random" /\ draw \in {"hash", "error"}
  /\ UNCHANGED <<part, stripeVars, memoryVars, drawVars, vars>>

SinglesNext == WipePart \/ MemoryPart \/ RandomPart \/ VerifyPart \/ DrawIsOver

SinglesSpec ==
  /\ SinglesInit
  /\ [][SinglesNext]_<<part, stripeVars, memoryVars, drawVars, vars>>
  /\ WF_drawVars(RandomPart)
=============================================================================
