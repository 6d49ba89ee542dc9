SPECIFICATION FairSpec
CONSTANTS
  Users = {u1, u2}
  Bookings = {b1, b2}
  Sessions = {s1, s2}
  NoUser = NoUser
  NoBooking = NoBooking
  NoEdit = NoEdit
  TTL = 1
  MaxTime = 1
  FirstEvent <- PaidTwoSpots
  Edits <- FreeForTwo
  Requests = {"book", "join", "pay", "hook"}
  RedisMayFail = FALSE
PROPERTIES RequestsEnd
