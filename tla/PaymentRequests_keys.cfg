SPECIFICATION PaySpec
CONSTANTS
  Sessions = {s1, s2, s3}
  Others = {o1}
  Bodies = {b1, b2}
  NoBody = NoBody
  NoSession = NoSession
  Charges = {g1, g2, g3}
  NoCharge = NoCharge
  TTL = 1
  StoreMayFail = TRUE
  MaxRequests = 4
  MaxTime = 2
SYMMETRY Symmetry
CHECK_DEADLOCK FALSE
INVARIANTS PayTypeOK OneExecutor ShownIsRecorded
PROPERTIES KeyPromise PaymentsHold
