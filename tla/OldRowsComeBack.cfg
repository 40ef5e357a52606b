SPECIFICATION Spec
CONSTANTS
  MaxRuns = 2
  Slots = {0, 1}
  Results <- FewOrMany
  MaxFailures = 0
  MaxOverlaps = 0
  MaxCopies = 1
INVARIANTS
  NoOldObligations
CHECK_DEADLOCK FALSE
