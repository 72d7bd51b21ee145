--------------------------- MODULE MCMeetingRoom ---------------------------
(* The instance of MeetingRoom that TLC checks.                            *)
EXTENDS MeetingRoom, TLC

CONSTANTS r1, r2

OneRoom == {r1}
TwoRooms == {r1, r2}
RoomSymmetry == Permutations(TwoRooms)
=============================================================================
