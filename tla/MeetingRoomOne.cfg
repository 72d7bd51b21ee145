SPECIFICATION Spec
CONSTANTS
  r1 = r1
  r2 = r2
  Rooms <- OneRoom
  ParticipantCount = 2
  RoundsMax = 2
  MaxEpoch = 3
  MaxAttempts = 7
  Events = {"restart"}
INVARIANTS
  SkippedAfterTwoFailures
  TypeOK
  CurrentAttemptLive
  NoOrphanAttempt
  RunningHasLoop
  StaleRunStopped
  NeverSpins
  CompletedAgendaHeld
PROPERTIES
  OnlyLiveAttemptsComplete
  ImplementsDiscussion
CHECK_DEADLOCK FALSE
