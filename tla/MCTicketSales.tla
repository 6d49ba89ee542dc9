--------------------------- MODULE MCTicketSales ---------------------------
(* Small instances of TicketSales for TLC. *)
EXTENDS TicketSales, TLC

Row(st, ty, c) == [status |-> st, type |-> ty, capacity |-> c]

PaidOneSpot == Row("PUBLISHED", "PAID", 1)
PaidTwoSpots == Row("PUBLISHED", "PAID", 2)

NoEdits == {}
\* Halving the capacity, and giving the event away for free.
ShrinkOrFree == {Row("PUBLISHED", "PAID", 1), Row("PUBLISHED", "FREE", 2)}

\* Giving it away with the same capacity.
FreeForTwo == {Row("PUBLISHED", "FREE", 2)}

\* The ids are interchangeable.  Used for safety properties only.
Symmetry == Permutations(Users) \cup Permutations(Bookings) \cup Permutations(Sessions)

=============================================================================
