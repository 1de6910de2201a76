CONSTANTS
  n1 = n1
  n2 = n2
  Nodes = {n1, n2}
  Order <- TwoNodes
  RF = 2
  ClientRouter = client
  Handlers = {h1, h2}
  QueueDepth = 2
  SpillWorkers = {w1}
  SpillQueue = 1
  MaxWrites = 2
  MaxRemovals = 1
  MaxFetches = 1
  MaxDepartures = 1
  MaxJoins = 1
SPECIFICATION Spec
INVARIANTS TypeOK ReplicasCatchUp SurvivesOneLoss NothingLost
CHECK_DEADLOCK FALSE
