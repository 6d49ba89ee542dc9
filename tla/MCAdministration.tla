------------------------- MODULE MCAdministration --------------------------
(* Small instances of Administration for TLC. *)
EXTENDS Administration

=============================================================================
