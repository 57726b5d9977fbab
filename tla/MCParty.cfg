SPECIFICATION Spec
CONSTANTS
  p1 = p1
  p2 = p2
  p3 = p3
  p4 = p4
  v1 = v1
  None = None
  Players <- MCPlayers
  Vehicles <- MCVehicles
  PartyMax = 4
  MaxMixed = 2
SYMMETRY Symmetry
INVARIANTS
  TypeOK
  PartiesAgree
  NoWildWrite
  PassengersPaid
