------------------------- MODULE MCIdempotencyKeys -------------------------
(* Small instances of IdempotencyKeys for TLC. *)
EXTENDS IdempotencyKeys, TLC

\* Used for safety properties only.
Symmetry == Permutations(Sessions) \cup Permutations(Bodies)

=============================================================================
