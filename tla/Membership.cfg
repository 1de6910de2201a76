CONSTANTS
  n1 = n1
  n2 = n2
  p1 = p1
  p2 = p2
  Nodes <- MCNodes
  Procs <- MCProcs
  VNodes = 1
  Space = 2
  Addrs = {a1, bad}
  BadAddr = bad
  Fleets <- MCFleets
  Gone = gone
  NoLease = none
SPECIFICATION FairSpec
INVARIANTS TypeOK SnapshotIsExact RingIsSnapshot NewestRegistrationStays
PROPERTIES RingFollowsProcesses
CHECK_DEADLOCK FALSE
