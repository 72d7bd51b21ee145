SPECIFICATION FairSpec
CONSTANTS
  MaxPairs = 2
  MaxTime = 2
  Term = 2
  Grace = 1
  MaxInFlight = 1
  Faults = {}
PROPERTIES LossStopsRuntime
