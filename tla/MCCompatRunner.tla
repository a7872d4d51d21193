--------------------------- MODULE MCCompatRunner ----------------------------
(***************************************************************************)
(* TLC instance of CompatRunner: one source file is committed, one vendored*)
(* file may appear.                                                        *)
(***************************************************************************)
EXTENDS CompatRunner

CONSTANTS source, vendor, old, new

MCCommitted == [p \in {source} |-> old]
=============================================================================
