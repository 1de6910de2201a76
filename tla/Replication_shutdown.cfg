CONSTANTS
  n1 = n1
  n2 = n2
  Nodes = {n1}
  Order <- OneNode
  RF = 2
  ClientRouter = client
  Handlers = {h1}
  QueueDepth = 1
  SpillWorkers = {w1}
  SpillQueue = 1
  MaxWrites = 2
  MaxRemovals = 2
  MaxFetches = 0
  MaxDepartures = 1
  MaxJoins = 0
SPECIFICATION Spec
PROPERTIES CloseDrains
CHECK_DEADLOCK FALSE
