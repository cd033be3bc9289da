----------------------------- MODULE MCPipeline -----------------------------
(***************************************************************************)
(* TLC instances of Pipeline.                                              *)
(***************************************************************************)
EXTENDS Pipeline
CONSTANTS p1, p2
=============================================================================
