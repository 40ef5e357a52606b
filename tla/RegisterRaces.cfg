SPECIFICATION FairSpec
CONSTANTS
  o1 = o1
  o2 = o2
  r1 = r1
  r2 = r2
  NoRow = NoRow
  NoDate = NoDate
  Scanner = Scanner
  DueSoonDays = 1
  NoticeLimit = 20
  Obligations = {o1}
  Requests = {r1, r2}
  Timings <- MainTimings
  MaxDay = 2
  MaxCrashes = 1
  MaxLost = 0
  MaxReextractions = 1
INVARIANTS
  TypeOK
  AuditNeverOverstates
  AuditLossBounded
  FlagsAreTrue
PROPERTIES
  ClosedStaysClosed
  PastDueIsFlagged
