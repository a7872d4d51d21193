--------------------------- MODULE MCMemoryCache ----------------------------
(***************************************************************************)
(* TLC instance of MemoryCache.                                            *)
(***************************************************************************)
EXTENDS MemoryCache

\* Callers, keys and values are only compared with their own kind.
Symmetry ==
    Permutations(Callers) \cup Permutations(Keys) \cup Permutations(Values)
=============================================================================
