CONSTANTS
  u1 = u1
  u2 = u2
  u3 = u3
  c1 = c1
  Workers = {w1, w2}
  w1 = w1
  w2 = w2
  Users = {u1, u3}
  Convs = {c1}
  Members <- OneMembers
  PayloadKinds = {TRUE, FALSE}
  BatchSize = 2
  ClaimBatch = 1
  ScanFactor = 1
  MaxEntries = 2
  MaxDeliveries = 2
  MaxCrashes = 1
  MaxFaults = 1
SPECIFICATION FairSpec
INVARIANTS NothingLost SavedAtMostOncePerDelivery
PROPERTIES ImplementsDurableDelivery DeliveredUnlessDeath StartRecoversStale
