------------------------------ MODULE MCHasher ------------------------------
(* Hasher with sizes of one to three blocks, of which a request for four has  *)
(* no valid layout.                                                           *)
EXTENDS Hasher, TLC
=============================================================================
