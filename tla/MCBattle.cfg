SPECIFICATION Spec
CONSTANTS
  p1 = p1
  p2 = p2
  b1 = b1
  b2 = b2
  b3 = b3
  None = None
  Players <- MCPlayers
  Battles <- MCBattles
  PlayerMax = 2
  MaxFights = 1
  MaxTries = 2
INVARIANTS
  TypeOK
  EntriesAgree
  DuelsAreClosed
  ChainsIntact
PROPERTY
  TurnsGoOn
