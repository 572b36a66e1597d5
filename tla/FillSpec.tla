------------------------------ MODULE FillSpec ------------------------------
(***************************************************************************)
(* What the fill of the memory matrix promises, whatever the schedule.     *)
(*                                                                         *)
(* The matrix is filled segment by segment.  A segment is identified by a  *)
(* step (pass * SyncPoints + slice) and a lane.  The only ordering Argon2  *)
(* asks for is the one of the four sync points of a pass: a segment may be *)
(* computed only when every lane has finished every earlier step, and it   *)
(* is computed once.  The known-answer-test callback runs between passes.  *)
(* The fill ends by returning with every segment computed, or by unwinding *)
(* with a panic.                                                           *)
(***************************************************************************)
EXTENDS Naturals

CONSTANTS Lanes,    \* Params::lanes, at least 1
          Passes    \* Params::passes, at least 1

VARIABLES filled,   \* the segments that have been computed
          traced,   \* how many passes the trace callback has been shown
          outcome   \* how the call ended

specVars == <<filled, traced, outcome>>

SyncPoints == 4
Steps == SyncPoints * Passes
Segment == (0 .. Steps - 1) \X (0 .. Lanes - 1)

\* The segments of the steps before n.
Before(n) == {s \in Segment : s[1] < n}

SpecTypeOK ==
  /\ filled \subseteq Segment
  /\ traced \in 0 .. Passes
  /\ outcome \in {"running", "returned", "unwound"}

Init ==
  /\ filled = {}
  /\ traced = 0
  /\ outcome = "running"

Fill(s) ==
  /\ outcome = "running"
  /\ s \notin filled
  /\ Before(s[1]) \subseteq filled
  /\ filled' = filled \cup {s}
  /\ UNCHANGED <<traced, outcome>>

Trace ==
  /\ outcome = "running"
  /\ traced < Passes
  /\ filled = Before(SyncPoints * (traced + 1))
  /\ traced' = traced + 1
  /\ UNCHANGED <<filled, outcome>>

Return ==
  /\ outcome = "running"
  /\ filled = Segment
  /\ traced = Passes
  /\ outcome' = "returned"
  /\ UNCHANGED <<filled, traced>>

Unwind ==
  /\ outcome = "running"
  /\ outcome' = "unwound"
  /\ UNCHANGED <<filled, traced>>

Next ==
  \/ \E s \in Segment : Fill(s)
  \/ Trace
  \/ Return
  \/ Unwind

Spec == Init /\ [][Next]_specVars
=============================================================================
