SPECIFICATION FairSpec
CONSTANTS
  i1 = i1
  i2 = i2
  s1 = s1
  q1 = q1
  q2 = q2
  qe = qe
  m1 = m1
  m2 = m2
  m3 = m3
  p1 = p1
  p2 = p2
  NoIface = NoIface
  NoMsg = NoMsg
  Procs = {p1, p2}
  Ifaces = {i1, i2}
  Sources = {s1}
  Queues = {q1, q2, qe}
  Msgs = {m1, m2, m3}
  source <- MCsource
  error <- MCerror
  route <- MCroute
  size <- MCsize
  BFRLNGTH_INIT = 2
  BFRLNGTH_MAX = 3
  TotalLength = TRUE
  MaxFaults = 1
INVARIANTS TypeOK PendingIsUndelivered ConsumedIsDelivered IdleHoldsFailedOnly
PROPERTIES StopIsFinal EventuallyConsumed MovesExactlyOnce
CHECK_DEADLOCK FALSE
