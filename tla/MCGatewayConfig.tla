-------------------------- MODULE MCGatewayConfig --------------------------
(* The instance of GatewayConfig that TLC checks.                          *)
EXTENDS GatewayConfig
=============================================================================
