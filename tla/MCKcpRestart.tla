----------------------------- MODULE MCKcpRestart -----------------------------
(* KcpRestart with small constants. *)
EXTENDS KcpRestart, TLC

CONSTANTS a, b

MCPeers == {a, b}
MCLens == {1}
MCMsgs == a :> 2 @@ b :> 0
===============================================================================
