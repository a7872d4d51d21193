-------------------------- MODULE MCOrderReceipts ---------------------------
(***************************************************************************)
(* TLC instance of OrderReceipts.  Liveness is checked in the same run, so *)
(* no symmetry is declared.                                                *)
(***************************************************************************)
EXTENDS OrderReceipts
=============================================================================
