SPECIFICATION Spec
CONSTANTS
  Users = {u1, u2}
  Bookings = {b1, b2}
  Sessions = {s1, s2}
  NoUser = NoUser
  NoBooking = NoBooking
  NoEdit = NoEdit
  TTL = 1
  MaxTime = 1
  FirstEvent <- PaidTwoSpots
  Edits <- ShrinkOrFree
  Requests = {"book", "join", "pay", "hook", "list", "cancelEvent"}
  RedisMayFail = TRUE
SYMMETRY Symmetry
INVARIANTS OneHoldPerUser OnlyKnownDeadlocks
PROPERTIES NoOversell FullOnlyWhenLive
