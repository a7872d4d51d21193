--------------------------- MODULE MCCatalogRoute ---------------------------
(***************************************************************************)
(* TLC instance of CatalogRoute.                                           *)
(***************************************************************************)
EXTENDS CatalogRoute
=============================================================================
