SPECIFICATION Spec
CONSTANTS
  k1 = k1
  k2 = k2
  k3 = k3
  t1 = t1
  s1 = s1
  Keys <- MCKeys
  IntTables <- MCInt
  StringTables <- MCString
  Values <- MCValues
  Inputs <- MCInputs
  Hash <- MCHash
  Unescape <- MCUnescape
  Prime = 2
  Grow = 1
  MaxNodes = 4
INVARIANTS
  TypeOK
  PoolConsistent
  RankIsCountAbove
  ReadBack
  RestartRestores
