SPECIFICATION Spec
CONSTANTS
  Dates <- WithinAYear
  Rules <- Monthly
  GuardLimit = 1200
INVARIANTS
  ResultIsFirstOccurrence
CHECK_DEADLOCK FALSE
