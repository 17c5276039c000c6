SPECIFICATION Spec
CONSTANTS
  Addrs = {a1, a2}
  Queues = {q1, q2, q3}
  MaxPoints = 3
  MaxTo = 2
INVARIANTS RouteReachesWanted OneAddressReturns
CHECK_DEADLOCK FALSE
