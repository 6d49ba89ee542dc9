------------------------- MODULE MCCatalogCache -------------------------
(* Small instances of CatalogCache for TLC. *)
EXTENDS CatalogCache, TLC

=============================================================================
