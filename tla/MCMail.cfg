SPECIFICATION Spec
CONSTANTS
  People <- MCPeople
  HashOf <- MCHashOf
  Servers <- MCServers
  FlushMax = 4
  MaxMails = 2
INVARIANT
  StoredMailIsReadBack
CHECK_DEADLOCK FALSE
