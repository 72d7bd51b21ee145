---------------------------- MODULE MCSessionTurns ----------------------------
(* The instance of SessionTurns that TLC checks.                             *)
EXTENDS SessionTurns, TLC
=============================================================================
