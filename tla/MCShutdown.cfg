SPECIFICATION Spec
CONSTANTS
  c1 = c1
  c2 = c2
  Conns <- MCConns
  Minutes <- MCMinutes
  MaxFdid = 3
  MaxOrders = 1
  MaxPending = 1
INVARIANTS
  TypeOK
  CountIsAwaited
  NobodyComesBack
  NoSaveLost
PROPERTIES
  ShutdownEnds
CHECK_DEADLOCK FALSE
