--------------------------- MODULE MCMemoryStore ----------------------------
(***************************************************************************)
(* TLC instance of MemoryStore.  Liveness is checked in the same run, so   *)
(* no symmetry is declared.                                                *)
(***************************************************************************)
EXTENDS MemoryStore
=============================================================================
