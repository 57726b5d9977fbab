SPECIFICATION Spec
CONSTANTS
  k1 = k1
  k2 = k2
  k3 = k3
  k4 = k4
  s1 = s1
  s2 = s2
  b1 = b1
  b2 = b2
  NoServer = NoServer
  NoKey = NoKey
  Cdkeys <- MCCdkeys
  Servers <- MCServers
  Buckets <- MCBuckets
  Hash <- MCHash
  Grow = 2
INVARIANTS
  TypeOK
  AtMostOneNode
  ListsBounded
PROPERTY
  RefinesLockMap
