CONSTANTS
  WorkConn = {w1, w2}
  NoConn = NoConn
  User = {u1, u2}
  PoolCount = 1
  PoolCap = 1
  ChanCap = 1
  CloseMayFail = TRUE
  ServerConfs <- MCServerConfs
  Files <- MCFiles
  Starts <- MCStarts
  Offers <- MCOffers
  Edits <- MCEdits
  t1 = t1
  t2 = t2
  t3 = t3
  c1 = k1
  c2 = k2
  Reg = {t1, t2, t3}
  Shape <- MCShape
  UserConn = {k1, k2}
  Client = {l1, l2}
  Parties <- MCParties
  ReserveDays = 2
  ClearDays = 1
  Midnight <- MCMidnight
SPECIFICATION MCSpec
CHECK_DEADLOCK FALSE
INVARIANTS OneUserPerConn NoOrphanConn JoinsOpenConn
  AcceptedIsSupported SubdomainsAreReserved ServedAsWritten TrafficByDay CountsMatch
 
