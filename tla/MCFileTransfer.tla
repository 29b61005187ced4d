---------------------------- MODULE MCFileTransfer ----------------------------
(* FileTransfer with small constants: a client that meets every fault, and   *)
(* one that meets those of the server only; they may name one path.          *)
EXTENDS FileTransfer

CONSTANTS c1, c2, p1, p2

MCClients == {c1, c2}
\* Of c1: empty, a chunk and a half, more than Word.
MCSizes == [c \in MCClients |-> IF c = c1 THEN {0, 3, 5} ELSE {2}]
MCPaths == [c \in MCClients |-> IF c = c1 THEN {p1} ELSE {p1, p2}]
===============================================================================
