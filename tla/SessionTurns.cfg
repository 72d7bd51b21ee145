SPECIFICATION FairSpec
CONSTANTS
  Calls = {a, b}
  Runs = {a, b}
  NoRun = NoRun
  NoTurn = NoTurn
  MaxTurns = 2
  MaxAwaiting = 1
  MaxFailed = 1
INVARIANTS
  TypeOK
  PendingHasTurn
  KnownIsOpen
  StopHolds
PROPERTIES
  StopReachesStartup EveryCallSettles
