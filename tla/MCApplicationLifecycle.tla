----------------------- MODULE MCApplicationLifecycle -----------------------
(***************************************************************************)
(* TLC instance of ApplicationLifecycle.  Liveness is checked in the same  *)
(* run, so no symmetry is declared.                                        *)
(***************************************************************************)
EXTENDS ApplicationLifecycle
=============================================================================
