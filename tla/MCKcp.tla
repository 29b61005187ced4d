--------------------------------- MODULE MCKcp ---------------------------------
(* Kcp with small constants. *)
EXTENDS Kcp, TLC

CONSTANTS a, b

MCPeers == {a, b}
MCLens == {1, 2, 3}            \* one segment, the longest message, one too long
MCMsgs == a :> 2 @@ b :> 0
===============================================================================
