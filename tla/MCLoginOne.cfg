SPECIFICATION Spec
CONSTANTS
  k1 = k1
  s1 = s1
  s2 = s2
  f1 = f1
  f2 = f2
  NoServer = NoServer
  NoKey = NoKey
  Cdkeys <- OneCdkey
  Servers <- OneServer
  Fds <- TwoFds
  Polite = TRUE
  MaxFdid = 3
  MaxEdits = 2
  MaxCrash = 1
  MaxLine = 3
SYMMETRY FdSymmetry
INVARIANTS
  TypeOK
  OneAnswerPerWait
  LockCoversPlay
PROPERTY
  NoLostUpdate
CHECK_DEADLOCK FALSE
