SPECIFICATION Spec
CONSTANTS
  x1 = x1
  x2 = x2
  x3 = x3
  l1 = l1
  Slots = {x1, x2}
  Reservations = {r1, r2}
  Sessions = {s1, s2}
  Lanes = {l1}
  NoLane = NoLane
  NoTarget = NoTarget
  FirstSlots <- OneSlot
  LastWeek = 2
  WeekLength = 2
  TTL = 1
  DueLead = 2
  FirstPolicy <- Charging
  Policies <- OnePolicy
  Requests = {"reserve", "cancel", "pay", "hook", "cancelEvent"}
  NewCells <- NoCells
  MaxCancels = 1
  MaxTime = 2
SYMMETRY Symmetry
INVARIANTS TypeOK OneUsePerSlot SlotShowsUse EventOnReservation PaidIsConfirmed
PROPERTIES DeadlinesKept EndedIsFinal SlotsOccupied
