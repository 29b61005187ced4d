----------------------------- MODULE MCUdpServer -----------------------------
(* Two peers, each of which may be new when the other's session is made. *)
EXTENDS UdpServer

CONSTANTS a, b
MCPeers == {a, b}
=============================================================================
