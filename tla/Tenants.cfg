CONSTANTS
  k1 = k1
  k2 = k2
  A = A
  B = B
  Keys = {k1, k2}
  Tenants = {A, B}
  Default = B
  Scale = 2
  MaxOverage = 100
  Workers = {w1, w2}
  Evictor = evictor
  Sizes = {1, 2}
  Costs = {1}
  Deployments <- MCDeployments
  MaxOps = 2
  MaxReads = 1
SPECIFICATION FairSpec
INVARIANTS TypeOK TenantAccounting PolicyTracksStore NoLostWakeup AgingFloor
PROPERTIES QuotaIsEnforced DrainEnds
CHECK_DEADLOCK FALSE
