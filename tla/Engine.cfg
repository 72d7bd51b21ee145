SPECIFICATION FairSpec
CONSTANTS
  Processes = {p1, p2, p3}
  NoProcess = none
  MaxRestarts = 1
  BootPolls = 1
INVARIANTS
  TypeOK OneGateway StopHolds StartingIsUnderWay
PROPERTIES
  EveryCallSettles CrashRecovers
