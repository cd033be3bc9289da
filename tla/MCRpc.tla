------------------------------- MODULE MCRpc -------------------------------
(***************************************************************************)
(* The TLC instance of Rpc: three calls of which one has a limit above the *)
(* relay's, so that a response can follow two failures in a row.  (That    *)
(* calls end is checked by MCDesktop, with two calls and without symmetry.)*)
(***************************************************************************)
EXTENDS Rpc, TLC
CONSTANTS c1, c2, c3

\* Calls with the same time limit are interchangeable.
ShortSymmetry == Permutations(Calls \ LongCalls)
=============================================================================
