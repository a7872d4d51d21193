------------------------- MODULE MCRequestPipeline --------------------------
(***************************************************************************)
(* TLC instance of RequestPipeline.                                        *)
(***************************************************************************)
EXTENDS RequestPipeline, TLC

\* Connections are interchangeable.
Symmetry == Permutations(Requests)
=============================================================================
