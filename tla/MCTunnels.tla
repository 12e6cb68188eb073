----------------------------- MODULE MCTunnels ------------------------------
(***************************************************************************)
(* An instance of module Tunnels for TLC.                                  *)
(***************************************************************************)
EXTENDS Tunnels

MCTunnelNames == 1..3

MCPorts == {1, 2}
=============================================================================
