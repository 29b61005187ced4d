----------------------------- MODULE MCDelayTasks -----------------------------
(* DelayTasks with small constants. *)
EXTENDS DelayTasks

CONSTANTS a, b

MCTimers == {a, b}
MCDelays == {1, 3}
===============================================================================
