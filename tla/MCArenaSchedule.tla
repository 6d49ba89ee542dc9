-------------------------- MODULE MCArenaSchedule --------------------------
(* Small instances of ArenaSchedule for TLC. *)
EXTENDS ArenaSchedule, TLC

CONSTANTS x1, x2, x3, l1

Absent == [status |-> "NONE", lane |-> NoLane, week |-> 0]
InWeek(w) == [status |-> "AVAILABLE", lane |-> l1, week |-> w]

\* One slot, and rows for those to come.
OneSlot == [x \in Slots |-> IF x = x1 THEN InWeek(1) ELSE Absent]

\* Policies that ask for payment, or not, and leave an hour, or none.
Charging == [charges |-> TRUE, recurring |-> TRUE, advance |-> 1]
Gratis == [charges |-> FALSE, recurring |-> TRUE, advance |-> 1]
SinglesOnly == [charges |-> TRUE, recurring |-> FALSE, advance |-> 0]
NoPolicies == {}
NoCells == {}
NextCells == {<<l1, 2>>}
AllCells == Lanes \X (0 .. LastWeek)
OnePolicy == {Gratis}
TwoPolicies == {Charging, Gratis}

\* Used for safety properties only.
Symmetry == Permutations(Reservations) \cup Permutations(Sessions)

=============================================================================
