CONSTANTS
  Nodes = {n1, n2, n3}
  VNodes = 2
  Space = 6
  Addrs = {a1, bad}
  BadAddr = bad
SYMMETRY NodeSymmetry
SPECIFICATION Spec
INVARIANTS TypeOK HistoryIndependent OwnersAreNearest RoutesAreConnected
PROPERTIES OrderSurvives
