CONSTANTS
  Control = {c1, c2}
  NoControl = NoControl
  RunID = {r1}
  NoRunID = NoRunID
  Name = {n1}
  PortName = {n1}
  Inbound <- ProxyMsgs
  Transport = "mux"
  Heartbeat = FALSE
  ChanCap = 2
  MaxPortsPerClient = 1
  MaxReads = 1
  MaxReqs = 0

SPECIFICATION Spec
CHECK_DEADLOCK FALSE
INVARIANTS ReplacedReleasedFirst
