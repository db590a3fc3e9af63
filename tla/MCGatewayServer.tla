-------------------------- MODULE MCGatewayServer --------------------------
(***************************************************************************)
(* A small instance of GatewayServer.                                      *)
(***************************************************************************)
EXTENDS GatewayServer
=============================================================================
