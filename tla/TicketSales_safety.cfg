SPECIFICATION Spec
CONSTANTS
  Users = {u1, u2}
  Bookings = {b1, b2}
  Sessions = {s1, s2}
  NoUser = NoUser
  NoBooking = NoBooking
  NoEdit = NoEdit
  TTL = 1
  MaxTime = 2
  FirstEvent <- PaidOneSpot
  Edits <- NoEdits
  Requests = {"book", "pay", "hook", "cancel", "nonPaid"}
  RedisMayFail = FALSE
SYMMETRY Symmetry
INVARIANTS TypeOK SoldOnce NotifiedOnce
PROPERTIES EndedIsFinal TimeLimitKept SpotsLedger PaymentsHold
