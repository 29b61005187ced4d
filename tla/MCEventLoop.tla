------------------------------ MODULE MCEventLoop ------------------------------
(* EventLoop with two callers, two tasks, a pipe of two bytes drained one     *)
(* byte at a time, and one other descriptor per epoll_wait.                   *)
EXTENDS EventLoop

CONSTANTS p1, p2, t1, t2, t3

MCProducers == {p1, p2}
MCThreeTasks == {t1, t2, t3}
===============================================================================
