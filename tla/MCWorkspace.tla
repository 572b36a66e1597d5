---------------------------- MODULE MCWorkspace ----------------------------
(* Workspace with arenas of up to three blocks and wipes that may spawn from *)
(* two blocks on; the code's threshold is 65536 blocks.                      *)
EXTENDS Workspace, TLC
=============================================================================
