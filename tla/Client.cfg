CONSTANTS
  Control = {c1, c2}
  NoControl = NoControl
  ChanCap = 2
  LoginFailExit = FALSE
  TCPMux = FALSE
  HasMonitor = TRUE
  MaxFailed = 2
  QueueCap = 3
  RunMayFail = TRUE
SPECIFICATION MCSpec
CHECK_DEADLOCK FALSE
INVARIANTS SessionSendsSafe OldSessionHoldsNothing RunningIsRegistered
PROPERTIES SessionIsReplaced RecoversTogether
