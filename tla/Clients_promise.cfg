CONSTANTS
  r0 = r0
  r1 = r1
  lg = lg
  s1 = s1
  s2 = s2
  Servers <- MCServers
  Shards <- MCCallers
  Callers <- MCCallers
  NBlocks = 2
  Chunks <- MCChunks
  Owners <- MCOwners
  Ranks <- MCRanks
  Rank0 = r0
  Loader = lg
  Deployments <- EngineOnly
  PeerWrites <- MCPeerWrites
  MaxLosses = 1
  MaxRequests = 2
  MaxLoads = 2
SPECIFICATION Spec
INVARIANT NeverAWrongServe
CHECK_DEADLOCK FALSE
