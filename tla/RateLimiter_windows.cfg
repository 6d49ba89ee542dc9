SPECIFICATION FairSpec
CONSTANTS
  Sessions = {s1, s2, s3}
  MaxRequests = 2
  MayFail = TRUE
INVARIANTS LimitKept EndIsDue
PROPERTIES WindowEnds
