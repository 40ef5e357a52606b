SPECIFICATION Spec
CONSTANTS
  d1 = d1
  d2 = d2
  d3 = d3
  Documents <- ShortAndLong
  Overhead = 2
  MaxChars = 12
  Overlap = 2
  Duties = {d1, d2, d3}
  Key <- TwoKeys
  Cites <- SomeCites
  MaxAnswers = 2
INVARIANTS
  EveryClauseIsShown
  SeamsAreBridged
  BatchesAreBounded
  KeptIsGrounded
  GroundedIsKept
CHECK_DEADLOCK FALSE
