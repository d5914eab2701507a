------------------------- MODULE MCGatewayLifecycle -------------------------
(* Two operators, every command, one gateway. *)
EXTENDS GatewayLifecycle

=============================================================================
