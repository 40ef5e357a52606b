SPECIFICATION Spec
CONSTANTS
  u1 = u1
  u2 = u2
  w1 = w1
  w2 = w2
  pdf = pdf
  Nobody = Nobody
  Uploads = {u1, u2}
  Bytes <- SameContent
  Workers = {w1, w2}
  MaxDeliveries = 3
  MaxMessages = 2
  MaxKills = 1
  MaxOverlaps = 0
SYMMETRY AllAreAlike
INVARIANTS
  TypeOK
  DoneIsReady
  NothingIsDropped
  RunsDoNotOverlap
PROPERTIES
  PublicationSpec
CHECK_DEADLOCK FALSE
