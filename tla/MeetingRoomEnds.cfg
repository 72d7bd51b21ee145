SPECIFICATION FairSpec
CONSTANTS
  r1 = r1
  r2 = r2
  Rooms <- OneRoom
  ParticipantCount = 2
  RoundsMax = 1
  MaxEpoch = 2
  MaxAttempts = 12
  Events = {"stream"}
PROPERTIES
  ClosedAttemptsFrozen
  RunningMeetingEnds
CHECK_DEADLOCK FALSE
