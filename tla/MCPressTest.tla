----------------------------- MODULE MCPressTest -----------------------------
(* Two clients. *)
EXTENDS PressTest

CONSTANTS a, b
MCSessions == {a, b}
=============================================================================
