SPECIFICATION Spec
CONSTANTS
  MaxPairs = 2
  MaxTime = 2
  Term = 2
  Grace = 1
  MaxInFlight = 1
  Faults = {"save","clear","admin","lost","restart"}
INVARIANTS
  TypeOK
  MemoryKeepsUp
PROPERTIES
  WatchIsKept LossIsReported
