SPECIFICATION Spec
CONSTANTS
  r1 = r1
  r2 = r2
  Rooms <- TwoRooms
  ParticipantCount = 2
  RoundsMax = 1
  MaxEpoch = 2
  MaxAttempts = 2
  Events = {"vanish", "torn", "restart", "licence", "engine"}
INVARIANTS
  RunningIsServed
  AgendaInOrder
  SingleRunningMeeting
SYMMETRY RoomSymmetry
