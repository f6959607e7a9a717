CONSTANTS
  Control = {c1, c2}
  NoControl = NoControl
  RunID = {r1}
  NoRunID = NoRunID
  Name = {n1}
  PortName = {n1}
  Inbound <- ProxyMsgs
  Transport = "tls"
  Heartbeat = FALSE
  ChanCap = 1
  MaxPortsPerClient = 1
  MaxReads = 3
  MaxReqs = 0
SYMMETRY Logins
SPECIFICATION Spec
CHECK_DEADLOCK FALSE
INVARIANTS NameOwnership NoOrphanProxy NoSendOnClosedChannel
  ReleasedHoldsNothing LiveControlFindable
PROPERTIES ImplementsRegistry
