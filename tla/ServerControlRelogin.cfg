CONSTANTS
  Control = {c1, c2}
  NoControl = NoControl
  RunID = {r1}
  NoRunID = NoRunID
  Name = {n1}
  PortName = {n1}
  Inbound <- ProxyMsgs
  Transport = "tcp"
  Heartbeat = FALSE
  ChanCap = 2
  MaxPortsPerClient = 1
  MaxReads = 0
  MaxReqs = 0

SPECIFICATION FairSpec
CHECK_DEADLOCK FALSE
PROPERTIES LoginCompletes
