----------------------------- MODULE MCFillPool -----------------------------
(* FillPool on two helpers and three lanes, or one helper and two passes.    *)
EXTENDS FillPool, TLC

CONSTANTS leader, h1, h2

TwoHelpers == {h1, h2}
OneHelper == {h1}

\* Helpers are interchangeable; used only where no liveness is checked.
HelperSymmetry == Permutations(Helpers)
=============================================================================
