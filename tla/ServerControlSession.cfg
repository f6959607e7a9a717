CONSTANTS
  Control = {c1}
  NoControl = NoControl
  RunID = {r1}
  NoRunID = NoRunID
  Name = {n1, n2}
  PortName = {n1, n2}
  Inbound <- AllMsgs
  Transport = "tls"
  Heartbeat = TRUE
  ChanCap = 2
  MaxPortsPerClient = 1
  MaxReads = 3
  MaxReqs = 1
SPECIFICATION FairSpec
CHECK_DEADLOCK FALSE
INVARIANTS PortAccounting
PROPERTIES ReleaseCompletes
