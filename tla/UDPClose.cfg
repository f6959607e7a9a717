CONSTANTS
  WorkConn = {w1, w2}
SPECIFICATION UDPSpec
CHECK_DEADLOCK FALSE
INVARIANTS ChannelsOutliveForwarding
