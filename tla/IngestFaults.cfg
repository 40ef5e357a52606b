SPECIFICATION FairSpec
CONSTANTS
  u1 = u1
  u2 = u2
  w1 = w1
  w2 = w2
  pdf = pdf
  Nobody = Nobody
  Uploads = {u1}
  Bytes <- OneContent
  Workers = {w1, w2}
  MaxDeliveries = 3
  MaxMessages = 2
  MaxKills = 1
  MaxOverlaps = 2
INVARIANTS
  ReadyIsComplete
PROPERTIES
  EveryMessageSettles
CHECK_DEADLOCK FALSE
