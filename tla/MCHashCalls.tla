---------------------------- MODULE MCHashCalls ----------------------------
(* Blake2b with blocks of four bytes, digests of four, and words that carry  *)
(* after six bytes, on every way to cut streams of up to eighteen bytes; and  *)
(* every call of the interface over inputs whose lengths, contents and costs  *)
(* can be taken for one another, one of them too long.  A behaviour is one or *)
(* the other.                                                                 *)
EXTENDS Blake2b, Argon2Calls, TLC

VARIABLE part   \* "stream" or "call"

C(memory, threads) ==
  [k \in Costs \cup {"threads"} |->
     CASE k = "memory" -> memory [] k = "threads" -> threads [] OTHER -> 1]

MCConfigs == {C(1, 1), C(1, 2), C(2, 1)}
MCPasswords == {<<>>, <<1>>, <<1, 1, 1, 1>>}
MCSalts == {<<>>, <<1>>, <<1, 1>>, <<0, 1>>}
MCSecrets == {<<>>, <<0>>}
MCDatas == {<<>>, <<0>>}

NoStream == keyLen = 0 /\ outLen = 1 /\ Init
NoCall ==
  /\ zeroizeMemory = TRUE
  /\ call = [api |-> "hash", own |-> C(1, 1), fits |-> TRUE, decodes |-> TRUE, expected |-> {},
             inputs |-> [config |-> C(1, 1), pwd |-> <<>>, salt |-> <<>>, secret |-> <<>>,
                         ad |-> <<>>]]
  /\ CallInit

HashCallsInit ==
  \/ part = "stream" /\ Init /\ NoCall
  \/ part = "call" /\ NoStream /\ CallInit

StreamPart == part = "stream" /\ Next /\ UNCHANGED <<part, callVars>>
CallPart == part = "call" /\ CallNext /\ UNCHANGED <<part, vars>>

HashCallsNext == StreamPart \/ CallPart

HashCallsSpec == HashCallsInit /\ [][HashCallsNext]_<<part, vars, callVars>>
=============================================================================
