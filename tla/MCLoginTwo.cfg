SPECIFICATION Spec
CONSTANTS
  k1 = k1
  s1 = s1
  s2 = s2
  f1 = f1
  f2 = f2
  NoServer = NoServer
  NoKey = NoKey
  Cdkeys <- OneCdkey
  Servers <- TwoServers
  Fds <- OneFd
  Polite = FALSE
  MaxFdid = 2
  MaxEdits = 0
  MaxCrash = 1
  MaxLine = 3
SYMMETRY ServerSymmetry
INVARIANTS
  OneAnswerPerWait
  DuplicateIsKicked
CHECK_DEADLOCK FALSE
