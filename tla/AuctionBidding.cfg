SPECIFICATION Spec
CONSTANTS
  Bidders = {b1, b2}
  NoBidder = NoBidder
  Requests = {r1, r2}
  Admins = {a1, a2}
  MaxPrice = 3
  MaxBids = 3
  MaxCalls = 3
  MaxFaults = 1
SYMMETRY Symmetry
INVARIANTS
  Inv
  ProxyHoldsTheLead
PROPERTIES
  OutbidOnlyByMore
CHECK_DEADLOCK FALSE
