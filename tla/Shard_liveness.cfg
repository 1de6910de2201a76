CONSTANTS
  k1 = k1
  k2 = k2
  k3 = k3
  Keys = {k1, k3}
  NumStripes = 2
  StripeOf <- MCStripeOf
  Sizes = {1, 2}
  MaxBlock = 2
  Workers = {w1, w2}
  Evictor = evictor
  MaxBytes = 4
  HiPct = 75
  LoPct = 25
  TTL = 0
  ReplicaVersions = {2}
  MaxOps = 3
  MaxTime = 1
SPECIFICATION FairSpec
PROPERTIES PressureIsRelieved DrainsToLowWater
