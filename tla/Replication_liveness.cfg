CONSTANTS
  n1 = n1
  n2 = n2
  Nodes = {n1, n2}
  Order <- TwoNodes
  RF = 2
  ClientRouter = client
  Handlers = {h1}
  QueueDepth = 2
  SpillWorkers = {w1, w2}
  SpillQueue = 1
  MaxWrites = 2
  MaxRemovals = 1
  MaxFetches = 0
  MaxDepartures = 1
  MaxJoins = 0
SPECIFICATION FairSpec
PROPERTIES BacklogDrains 
CHECK_DEADLOCK FALSE
