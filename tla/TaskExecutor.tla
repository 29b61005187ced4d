----------------------------- MODULE TaskExecutor -----------------------------
(***************************************************************************)
(* What a poller promises to the callers of EventLoop::async and           *)
(* EventLoop::async_first, with no pipe, no epoll and no threads: a task   *)
(* handed in is run at most once; tasks handed in with async run in the    *)
(* order they were handed in; a task handed in with async_first may        *)
(* overtake others but never disturbs the order among them.  Liveness      *)
(* (every task is run) is stated on the detailed module.                   *)
(***************************************************************************)
EXTENDS Naturals, Sequences

CONSTANT Tasks       \* the tasks callers may hand in, Exit included

VARIABLES
  fresh,             \* tasks not handed in yet
  waiting,           \* tasks handed in and not started, next one first
  executed           \* tasks started, oldest first

vars == <<fresh, waiting, executed>>

Init == /\ fresh = Tasks
        /\ waiting = <<>>
        /\ executed = <<>>

\* async: behind everything that waits.
Post(t) == /\ t \in fresh
           /\ fresh' = fresh \ {t}
           /\ waiting' = Append(waiting, t)
           /\ UNCHANGED executed

\* async_first: ahead of some suffix of what waits.
PostFirst(t) == /\ t \in fresh
                /\ fresh' = fresh \ {t}
                /\ \E i \in 0..Len(waiting) :
                      waiting' = SubSeq(waiting, 1, i) \o <<t>>
                                   \o SubSeq(waiting, i + 1, Len(waiting))
                /\ UNCHANGED executed

\* async on the loop thread itself: run on the spot.
RunNow(t) == /\ t \in fresh
             /\ fresh' = fresh \ {t}
             /\ executed' = Append(executed, t)
             /\ UNCHANGED waiting

RunNext == /\ waiting # <<>>
           /\ executed' = Append(executed, Head(waiting))
           /\ waiting' = Tail(waiting)
           /\ UNCHANGED fresh

Next == \/ \E t \in Tasks : Post(t) \/ PostFirst(t) \/ RunNow(t)
        \/ RunNext

Spec == Init /\ [][Next]_vars
===============================================================================
