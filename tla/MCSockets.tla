------------------------------ MODULE MCSockets ------------------------------
(* A socket that connects and one that is accepted, of one process with one  *)
(* descriptor number for both.                                               *)
EXTENDS Sockets

CONSTANTS a, b
=============================================================================
