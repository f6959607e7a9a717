CONSTANTS
  n1 = n1
  n2 = n2
  n3 = n3
  g1 = g1
  k1 = k1
  k2 = k2
  a1 = a1
  a2 = a2
  ProxyName = {n1, n2, n3}
  NoName = NoName
  AllowPort = {a1, a2}
  NoPort = NoPort
  Proxy = {p1, p2, p3}
  Config <- MixedConfigs
  Group = {g1}
  NoGroup = NoGroup
  GroupKey = {k1, k2}
  NoKey = NoKey
  MaxGroups = 2
  SysPort = {a1, a2}
  Nobody = Nobody
  MaxConns = 1
SPECIFICATION FairSpec
CHECK_DEADLOCK FALSE
INVARIANTS PortTables AnnouncedPort ListeningIsUsed PortsComeBack GroupMembersAgree
PROPERTIES ConnectionsDispatched
