SPECIFICATION FairSpec
CONSTANTS
  x1 = x1
  x2 = x2
  x3 = x3
  l1 = l1
  Slots = {x1, x2, x3}
  Reservations = {r1}
  Sessions = {s1, s2}
  Lanes = {l1}
  NoLane = NoLane
  NoTarget = NoTarget
  FirstSlots <- OneSlot
  LastWeek = 3
  WeekLength = 1
  TTL = 1
  DueLead = 1
  FirstPolicy <- Charging
  Policies <- NoPolicies
  Requests = {"list", "reserve", "pay", "hook", "slot"}
  NewCells <- NextCells
  MaxCancels = 1
  MaxTime = 2
INVARIANTS WeekByWeek
PROPERTIES HoldsEnd
