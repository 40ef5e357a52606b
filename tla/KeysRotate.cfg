SPECIFICATION FairSpec
CONSTANTS
  r1 = r1
  r2 = r2
  k1 = k1
  Forged = Forged
  Nobody = Nobody
  NoKid = NoKid
  Requests = {r1, r2}
  Kids = {k1}
  TTL = 3
  MinRefetch = 2
  Slow = 1
  MaxTime = 5
  MaxFailures = 1
  MaxRotations = 2
PROPERTIES
  WithdrawnKeysRunOut
  NewKeysAreFound
  FetchesArePaced
  EveryRequestIsAnswered
