SPECIFICATION Spec
CONSTANTS
  Sessions = {s1, s2, s3}
  Bodies = {q1, q2}
  NoBody = NoBody
  NoSession = NoSession
  TTL = 1
  StoreMayFail = FALSE
  MaxRequests = 3
  MaxTime = 2
SYMMETRY Symmetry
CHECK_DEADLOCK FALSE
INVARIANT ReplaysOwnRequest
