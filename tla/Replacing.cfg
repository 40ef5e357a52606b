SPECIFICATION Spec
CONSTANTS
  MaxRuns = 3
  Slots = {0, 1}
  Results <- FewOrMany
  MaxFailures = 1
  MaxOverlaps = 1
  MaxCopies = 1
INVARIANTS
  RerunReplacesEverything
PROPERTIES
  NeverBare
  DanglingHasACause
CHECK_DEADLOCK FALSE
