SPECIFICATION MCSpec
CONSTANTS
  p1 = p1
  p2 = p2
  p3 = p3
  p4 = p4
  p5 = p5
  Proxy = {p1, p2, p3, p4, p5}
  ProxyConf <- MCProxyConf
  Casts <- MCCasts
  Asked <- MCAsked
  Request = {q1}
  Hosts <- MCHosts
  Paths <- MCPaths
  Users <- MCUsers
  MaxInst = 2
  MuxProxy = {p1, p2, p3, p4, p5}
  MuxCasts <- MCMuxCasts
  MuxConf <- MCMuxConf
  Conn = {c1, c2}
  MuxHosts <- MCMuxHosts
  MuxMaxInst = 2
  WorkConn = {w1, w2}
  Owner = {o1, o2}
  Visitor = {v1}
  Packets = pk
  QueueCap = 1
  TunnelUser = {u1, u2}
  KeepTunnelOpen = TRUE
  Fallback = TRUE
INVARIANTS LookupIsBest RoutesHaveOwners NoHandlerStranded
PROPERTIES ServedByItsRoute DeadConnReplaced SudpEndsTogether TunnelReopens
CHECK_DEADLOCK FALSE
