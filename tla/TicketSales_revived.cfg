SPECIFICATION Spec
CONSTANTS
  Users = {u1}
  Bookings = {b1}
  Sessions = {s1, s2}
  NoUser = NoUser
  NoBooking = NoBooking
  NoEdit = NoEdit
  TTL = 1
  MaxTime = 1
  FirstEvent <- PaidOneSpot
  Edits <- ShrinkOrFree
  Requests = {"book", "cancelEvent"}
  RedisMayFail = FALSE
PROPERTY CancelledEventStays
