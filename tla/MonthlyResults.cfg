SPECIFICATION Spec
CONSTANTS
  Dates <- AroundALeapDay
  Rules <- AllRules
  GuardLimit = 1200
INVARIANTS
  GuardNeverTrips
  ExactUpToThe28th
  DriftIsBounded
CHECK_DEADLOCK FALSE
