SPECIFICATION Spec
CONSTANTS
  x1 = x1
  x2 = x2
  x3 = x3
  l1 = l1
  Slots = {x1}
  Reservations = {r1, r2, r3}
  Sessions = {s1, s2}
  Lanes = {l1}
  NoLane = NoLane
  NoTarget = NoTarget
  FirstSlots <- OneSlot
  LastWeek = 1
  WeekLength = 2
  TTL = 1
  DueLead = 1
  FirstPolicy <- Gratis
  Policies <- NoPolicies
  Requests = {"list", "reserve", "cancelEvent"}
  NewCells <- NoCells
  MaxCancels = 2
  MaxTime = 3
SYMMETRY Symmetry
INVARIANT OneActiveReservation
