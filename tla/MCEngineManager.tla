-------------------------- MODULE MCEngineManager --------------------------
(* The instance of EngineManager that TLC checks.                          *)
EXTENDS EngineManager
=============================================================================
