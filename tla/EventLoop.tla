------------------------------ MODULE EventLoop ------------------------------
(***************************************************************************)
(* One poller of src/event/EventLoop.cpp on Linux (the epoll branch): the  *)
(* task list other threads feed through async / async_first, the pipe that *)
(* wakes the loop, the loop itself, and the destructor that ends it.       *)
(*                                                                         *)
(* Threads: the callers (Producers), the loop thread (Loop), the thread    *)
(* that destroys the poller (Owner).  A poller on which runLoop was never  *)
(* called has no loop thread (hasThread is FALSE): FileSend.cpp keeps one. *)
(* Timers are in DelayTasks, the other descriptors in Sockets.            *)
(***************************************************************************)
EXTENDS Naturals, Sequences, FiniteSets

CONSTANTS
  Producers,   \* threads, other than the loop's, that call async
  Loop,        \* the loop thread
  Owner,       \* the thread that runs ~EventLoop
  Tasks,       \* the task objects handed in by callers, each handed in once
  Exit,        \* the task shutdown() hands in: it throws ExitException
  PipeCap,     \* bytes the pipe holds (64 KiB on Linux)
  ReadChunk,   \* bytes one read of the pipe takes: sizeof(buf)
  MaxEvents    \* bound: descriptors other than the pipe one epoll_wait reports

ASSUME ThreadsAssumption == /\ Loop \notin Producers
                            /\ Owner \notin Producers
                            /\ Loop # Owner
ASSUME TasksAssumption == Exit \notin Tasks
ASSUME PipeAssumption == /\ PipeCap \in Nat \ {0}
                         /\ ReadChunk \in Nat \ {0}
                         /\ MaxEvents \in Nat

VARIABLES
  fresh,       \* tasks not handed in yet
  list,        \* _list_task
  batch,       \* what is left of _list_swap
  executed,    \* history: tasks started, oldest first
  writing,     \* threads between the unlock of _mtx_task and _pipe.write
  pipe,        \* bytes in the pipe
  edge,        \* the pipe is on epoll's ready list (registered edge-triggered)
  pipeReady,   \* the pipe is in the array of the last epoll_wait, not handled
  events,      \* other descriptors in that array, not handled
  loop,        \* where the loop thread is
  exitFlag,    \* _exit_flag
  hasThread,   \* _loop_thread is not null
  owner        \* where the destructor is

vars == <<fresh, list, batch, executed, writing, pipe, edge, pipeReady,
          events, loop, exitFlag, hasThread, owner>>

taskVars  == <<fresh, list, batch, executed>>
pipeVars  == <<writing, pipe, edge>>
epollVars == <<pipeReady, events>>
exitVars  == <<exitFlag, hasThread, owner>>

Threads  == Producers \cup {Loop, Owner}
AllTasks == Tasks \cup {Exit}

LoopStates  == {"none", "poll", "events", "callback", "drain", "swap",
                "batch", "task", "stopped"}
OwnerStates == {"alive", "join", "joined", "flush", "flushTask", "gone"}

\* The constructor, then runLoop(false, ..) or nothing.
Init == /\ fresh = Tasks
        /\ list = <<>> /\ batch = <<>> /\ executed = <<>>
        /\ writing = {} /\ pipe = 0 /\ edge = FALSE
        /\ pipeReady = FALSE /\ events = 0
        /\ exitFlag = FALSE
        /\ hasThread \in BOOLEAN
        /\ loop = IF hasThread THEN "poll" ELSE "none"
        /\ owner = "alive"
-----------------------------------------------------------------------------
(* async, async_first, shutdown's call: async_l.                           *)

\* isCurrentThread: also true on every thread when there is no loop thread.
IsCurrent(th) == ~hasThread \/ th = Loop

\* Who can be calling: a producer holds the poller, so the destructor has not
\* begun; the loop thread calls from a task or an event callback, the owner
\* from a task it flushes.
CanCall(th) ==
  /\ th \notin writing
  /\ \/ th \in Producers /\ owner = "alive"
     \/ th = Loop /\ loop \in {"task", "callback"}
     \/ th = Owner /\ owner = "flushTask"

\* may_sync on the loop's own thread: the task runs inside the call.
AsyncInline(th, t) ==
  /\ CanCall(th) /\ IsCurrent(th) /\ t \in fresh
  /\ fresh' = fresh \ {t}
  /\ executed' = Append(executed, t)
  /\ UNCHANGED <<list, batch, pipeVars, epollVars, loop, exitVars>>

\* Mutant of AsyncPush: the loop thread does not wake itself up.
AsyncPush_NoWake(th, t, maySync, first) ==
  /\ CanCall(th) /\ t \in fresh
  /\ ~(maySync /\ IsCurrent(th))
  /\ fresh' = fresh \ {t}
  /\ list' = IF first THEN <<t>> \o list ELSE Append(list, t)
  /\ writing' = IF th = Loop THEN writing ELSE writing \cup {th}
  /\ UNCHANGED <<batch, executed, pipe, edge, epollVars, loop, exitVars>>

\* The section under _mtx_task.
AsyncPush(th, t, maySync, first) ==
  /\ CanCall(th) /\ t \in fresh
  /\ ~(maySync /\ IsCurrent(th))
  /\ fresh' = fresh \ {t}
  /\ list' = IF first THEN <<t>> \o list ELSE Append(list, t)
  /\ writing' = writing \cup {th}
  /\ UNCHANGED <<batch, executed, pipe, edge, epollVars, loop, exitVars>>

\* Mutant of PipeWrite: a pipe without capacity.
PipeWrite_Unbounded(th) ==
  /\ th \in writing
  /\ writing' = writing \ {th}
  /\ pipe' = pipe + 1 /\ edge' = TRUE
  /\ UNCHANGED <<taskVars, epollVars, loop, exitVars>>

\* _pipe.write("", 1): both ends are non-blocking, a full pipe drops the byte.
PipeWrite(th) ==
  /\ th \in writing
  /\ writing' = writing \ {th}
  /\ IF pipe < PipeCap
     THEN pipe' = pipe + 1 /\ edge' = TRUE
     ELSE UNCHANGED <<pipe, edge>>
  /\ UNCHANGED <<taskVars, epollVars, loop, exitVars>>
-----------------------------------------------------------------------------
(* runLoop *)

\* epoll_wait: a timeout or an interruption reports nothing.  The pipe is
\* reported once per edge, and only if it is still readable.
EpollWait ==
  /\ loop = "poll"
  /\ pipeReady' = (edge /\ pipe > 0)
  /\ edge' = FALSE
  /\ events' \in 0..MaxEvents
  /\ loop' = "events"
  /\ UNCHANGED <<taskVars, writing, pipe, exitVars>>

\* The callback of a socket.
OtherEvent ==
  /\ loop = "events" /\ events > 0
  /\ events' = events - 1
  /\ loop' = "callback"
  /\ UNCHANGED <<taskVars, pipeVars, pipeReady, exitVars>>

OtherEventDone ==
  /\ loop = "callback" /\ Loop \notin writing
  /\ loop' = "events"
  /\ UNCHANGED <<taskVars, pipeVars, epollVars, exitVars>>

PipeEvent ==
  /\ loop = "events" /\ pipeReady
  /\ pipeReady' = FALSE
  /\ loop' = "drain"
  /\ UNCHANGED <<taskVars, pipeVars, events, exitVars>>

\* while (!_exit_flag), after the whole array has been handled.
LoopTop ==
  /\ loop = "events" /\ ~pipeReady /\ events = 0
  /\ loop' = IF exitFlag THEN "stopped" ELSE "poll"
  /\ UNCHANGED <<taskVars, pipeVars, epollVars, exitVars>>
-----------------------------------------------------------------------------
(* onPipeEvent *)

DrainRead ==
  /\ loop = "drain" /\ pipe > 0
  /\ pipe' = IF pipe > ReadChunk THEN pipe - ReadChunk ELSE 0
  /\ UNCHANGED <<taskVars, writing, edge, epollVars, loop, exitVars>>

\* EAGAIN
DrainEmpty ==
  /\ loop = "drain" /\ pipe = 0
  /\ loop' = "swap"
  /\ UNCHANGED <<taskVars, pipeVars, epollVars, exitVars>>

\* Mutant of SwapTasks: the list is copied, not swapped.
SwapTasks_Copy ==
  /\ loop = "swap"
  /\ batch' = list
  /\ loop' = "batch"
  /\ UNCHANGED <<fresh, list, executed, pipeVars, epollVars, exitVars>>

SwapTasks ==
  /\ loop = "swap"
  /\ batch' = list
  /\ list' = <<>>
  /\ loop' = "batch"
  /\ UNCHANGED <<fresh, executed, pipeVars, epollVars, exitVars>>

\* Mutants of RunTask: ExitException ends the batch; it is swallowed like
\* every other exception.
RunTask_ExitBreaks ==
  /\ loop = "batch" /\ batch # <<>>
  /\ executed' = Append(executed, Head(batch))
  /\ IF Head(batch) = Exit
     THEN exitFlag' = TRUE /\ batch' = <<>> /\ UNCHANGED loop
     ELSE batch' = Tail(batch) /\ loop' = "task" /\ UNCHANGED exitFlag
  /\ UNCHANGED <<fresh, list, pipeVars, epollVars, hasThread, owner>>

RunTask_ExitSwallowed ==
  /\ loop = "batch" /\ batch # <<>>
  /\ batch' = Tail(batch)
  /\ executed' = Append(executed, Head(batch))
  /\ loop' = IF Head(batch) = Exit THEN loop ELSE "task"
  /\ UNCHANGED <<fresh, list, pipeVars, epollVars, exitVars>>

RunTask ==
  /\ loop = "batch" /\ batch # <<>>
  /\ batch' = Tail(batch)
  /\ executed' = Append(executed, Head(batch))
  /\ IF Head(batch) = Exit
     THEN exitFlag' = TRUE /\ UNCHANGED loop
     ELSE loop' = "task" /\ UNCHANGED exitFlag
  /\ UNCHANGED <<fresh, list, pipeVars, epollVars, hasThread, owner>>

TaskDone ==
  /\ loop = "task" /\ Loop \notin writing
  /\ loop' = "batch"
  /\ UNCHANGED <<taskVars, pipeVars, epollVars, exitVars>>

BatchDone ==
  /\ loop = "batch" /\ batch = <<>>
  /\ loop' = "events"
  /\ UNCHANGED <<taskVars, pipeVars, epollVars, exitVars>>
-----------------------------------------------------------------------------
(* ~EventLoop *)

\* The last reference is gone, so no producer is inside async.
Shutdown ==
  /\ owner = "alive" /\ writing \cap Producers = {}
  /\ list' = <<Exit>> \o list
  /\ writing' = writing \cup {Owner}
  /\ owner' = "join"
  /\ UNCHANGED <<fresh, batch, executed, pipe, edge, epollVars, loop,
                 exitFlag, hasThread>>

\* Mutant of Join: the thread is detached.
Join_Detach ==
  /\ owner = "join" /\ Owner \notin writing
  /\ hasThread' = FALSE
  /\ owner' = "joined"
  /\ UNCHANGED <<taskVars, pipeVars, epollVars, loop, exitFlag>>

Join ==
  /\ owner = "join" /\ Owner \notin writing
  /\ hasThread => loop = "stopped"
  /\ hasThread' = FALSE
  /\ owner' = "joined"
  /\ UNCHANGED <<taskVars, pipeVars, epollVars, loop, exitFlag>>

\* onPipeEvent(true): no drain, the owner runs what was left.
FlushSwap ==
  /\ owner = "joined"
  /\ batch' = list
  /\ list' = <<>>
  /\ owner' = "flush"
  /\ UNCHANGED <<fresh, executed, pipeVars, epollVars, loop, exitFlag,
                 hasThread>>

FlushRun ==
  /\ owner = "flush" /\ batch # <<>>
  /\ batch' = Tail(batch)
  /\ executed' = Append(executed, Head(batch))
  /\ IF Head(batch) = Exit
     THEN exitFlag' = TRUE /\ UNCHANGED owner
     ELSE owner' = "flushTask" /\ UNCHANGED exitFlag
  /\ UNCHANGED <<fresh, list, pipeVars, epollVars, loop, hasThread>>

FlushTaskDone ==
  /\ owner = "flushTask" /\ Owner \notin writing
  /\ owner' = "flush"
  /\ UNCHANGED <<taskVars, pipeVars, epollVars, loop, exitFlag, hasThread>>

FlushDone ==
  /\ owner = "flush" /\ batch = <<>>
  /\ owner' = "gone"
  /\ UNCHANGED <<taskVars, pipeVars, epollVars, loop, exitFlag, hasThread>>
\* Nothing is left to run.
Destroyed == owner = "gone" /\ UNCHANGED vars
-----------------------------------------------------------------------------
Async(th) == \E t \in Tasks :
               \/ AsyncInline(th, t)
               \/ \E maySync, first \in BOOLEAN :
                     AsyncPush(th, t, maySync, first)

LoopStep == \/ EpollWait \/ OtherEvent \/ OtherEventDone \/ PipeEvent
            \/ LoopTop \/ DrainRead \/ DrainEmpty \/ SwapTasks \/ RunTask
            \/ TaskDone \/ BatchDone

DestroyStep == Join \/ FlushSwap \/ FlushRun \/ FlushTaskDone \/ FlushDone

Next == \/ \E th \in Threads : Async(th) \/ PipeWrite(th)
        \/ LoopStep
        \/ Shutdown
        \/ DestroyStep
        \/ Destroyed

Spec == Init /\ [][Next]_vars

\* A thread that has begun async finishes it; the loop thread runs, its
\* callbacks return; the destructor, once begun, goes on.  Nobody has to call
\* async or to destroy the poller.
Fairness == /\ \A th \in Threads : WF_vars(PipeWrite(th))
            /\ WF_vars(LoopStep)
            /\ WF_vars(DestroyStep)

FairSpec == Spec /\ Fairness
-----------------------------------------------------------------------------
(* Properties *)

\* Every variable keeps its type; the pipe never holds more than its capacity.
TypeOK ==
  /\ fresh \subseteq Tasks
  /\ list \in Seq(AllTasks)
  /\ batch \in Seq(AllTasks)
  /\ executed \in Seq(AllTasks)
  /\ writing \subseteq Threads
  /\ pipe \in 0..PipeCap
  /\ edge \in BOOLEAN
  /\ pipeReady \in BOOLEAN
  /\ events \in 0..MaxEvents
  /\ loop \in LoopStates
  /\ exitFlag \in BOOLEAN
  /\ hasThread \in BOOLEAN
  /\ owner \in OwnerStates

\* A loop thread about to sleep in epoll_wait while tasks are queued, and no
\* caller is still on its way to the pipe, is woken at once: the pipe is
\* readable and its edge has not been consumed.  This is what draining the
\* pipe before taking the list, and writing after unlocking it, are for.
NoLostWakeup ==
  loop = "poll" /\ list # <<>> /\ writing = {} => edge /\ pipe > 0

\* The destructor runs the tasks that were left only when the loop thread has
\* finished: two threads never run the poller's tasks side by side, and
\* _list_swap belongs to one of them.
SingleRunner ==
  owner \in {"joined", "flush", "flushTask", "gone"}
     => loop \in {"none", "stopped"}

\* Tasks are run at most once, in the order async received them, and
\* async_first only inserts: the loop implements TaskExecutor.
Executor == INSTANCE TaskExecutor WITH
  Tasks   <- AllTasks,
  fresh   <- fresh \cup (IF owner = "alive" THEN {Exit} ELSE {}),
  waiting <- batch \o list
FifoExactlyOnce == Executor!Spec

Queued(t) == \E i \in DOMAIN list : list[i] = t
Started(t) == \E i \in DOMAIN executed : executed[i] = t

\* A task queued before the final flush is run, shutdown or not: by the loop
\* thread or, when it is queued too late for it, by the destructor.
\* (A task that a flushed task queues is dropped: nobody reads the list again.)
PostedTasksRun ==
  \A t \in Tasks :
    (Queued(t) /\ (IF owner = "alive" THEN hasThread
                                     ELSE owner \in {"join", "joined"}))
       ~> Started(t)

\* The destructor terminates: the Exit task reaches the loop thread however
\* many tasks are queued, and the join returns.
ShutdownCompletes == (owner = "join") ~> (owner = "gone")
===============================================================================
