SPECIFICATION Spec
CONSTANTS
  i1 = i1
  i2 = i2
  s1 = s1
  s2 = s2
  q1 = q1
  m1 = m1
  c1 = c1
  c2 = c2
  bad = bad
  p1 = p1
  p2 = p2
  p3 = p3
  p4 = p4
  NoIface = NoIface
  NoMsg = NoMsg
  NoCfg = NoCfg
  NoProc = NoProc
  Procs = {p1, p2, p3}
  Ifaces = {i1, i2}
  Sources = {s1, s2}
  Queues = {q1}
  Msgs = {m1}
  Configs = {c1, c2, bad}
  source <- MCsource
  error <- MCerror
  route <- MCroute
  size <- MCsize
  ifaces <- MCifaces
  BFRLNGTH_INIT = 1
  BFRLNGTH_MAX = 1
  TotalLength = FALSE
  MaxFaults = 0
  MaxRouterFaults = 0
  MaxConfigs = 2
  MaxCommands = 1
  MaxCrashes = 0
INVARIANT StoppedBeforeStart
CHECK_DEADLOCK FALSE
