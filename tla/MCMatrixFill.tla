---------------------------- MODULE MCMatrixFill ----------------------------
(* MatrixFill on two lanes of four segments, over two passes.  Word and        *)
(* AddressesInBlock are 2^32 and 128 in the code; here a segment needs more    *)
(* than one block of addresses and every j1 < Word is tried.                   *)
EXTENDS MatrixFill, TLC
=============================================================================
