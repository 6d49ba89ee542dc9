------------------------- MODULE MCPaymentRequests -------------------------
(* Small instances of PaymentRequests for TLC. *)
EXTENDS PaymentRequests, TLC

Symmetry == Permutations(Sessions) \cup Permutations(Bodies) \cup Permutations(Charges)

=============================================================================
