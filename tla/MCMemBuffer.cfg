SPECIFICATION Spec
CONSTANTS
  a = a
  nl = nl
  z = z
  p = p
  q = q
  Size = 5
  BufSize = 2
  NL = nl
  MaxLine = 1
  MaxQueue = 1
  PeekSize = 3
  Conns <- MCConns
  Reads <- MCReads
  Bad <- MCBad
  Writes <- MCWrites
INVARIANTS
  TypeOK
  BuffersOwned
  NothingEmptyBehindHead
PROPERTIES
  RefinesByteStreams
  ClosedIsReleased
CHECK_DEADLOCK FALSE
