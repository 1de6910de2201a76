CONSTANTS
  k1 = k1
  k2 = k2
  k3 = k3
  Keys = {k1, k2, k3}
  NumStripes = 2
  StripeOf <- MCStripeOf
  Sizes = {3}
  MaxBlock = 3
  Workers = {w1, w2}
  Evictor = evictor
  MaxBytes = 4
  HiPct = 75
  LoPct = 25
  TTL = 1
  ReplicaVersions = {}
  MaxOps = 4
  MaxTime = 3
SYMMETRY WorkerSymmetry
SPECIFICATION Spec
INVARIANTS AdmissionBound AdmissionOK IdleDoesNotSurvive
