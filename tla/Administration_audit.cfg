SPECIFICATION FairSpec
CONSTANTS
  Admins = {a1, a2}
  Organizers = {u1}
  Arenas = {r1}
  Events = {e1}
  Sessions = {s1, s2}
  NoUser = NoUser
  NoTarget = NoTarget
  NoSession = NoSession
  MaxRequests = 3
CHECK_DEADLOCK FALSE
INVARIANTS TypeOK AuditTrail CancelsAudited CircleIsDeadlock
PROPERTIES AdminLeft ArenaRowsTrue RequestsEnd
