------------------------------ MODULE DelayTasks ------------------------------
(***************************************************************************)
(* The timers of a poller: EventLoop::doDelayTask, getMinDelay,            *)
(* flushDelayTask, the Timer class on top of them, and the timeout they    *)
(* give epoll_wait.  How a closure handed in by another thread wakes the   *)
(* loop is in EventLoop.tla; here it is in posted until the loop runs it.  *)
(* Time passes between any two steps: callbacks and the loop itself are    *)
(* not instantaneous.                                                      *)
(***************************************************************************)
EXTENDS Integers, FiniteSets

CONSTANTS
  Timers,     \* DelayTask objects
  Delays,     \* delays asked for, in milliseconds
  MaxTime     \* bound: nothing is put off to a later time

ASSUME DelaysAssumption == Delays \subseteq Nat \ {0} /\ MaxTime \in Nat

VARIABLES
  now,        \* getCurrentMillisecond()
  posted,     \* closures of doDelayTask the loop has not run yet
  tasks,      \* _delay_task_map
  copy,       \* task_copy of a running flushDelayTask
  current,    \* the entry whose task is running: at most one
  ref,        \* the time the delay is reckoned from: now of getMinDelay
  delay,      \* minDelay, 0 for none
  began,      \* when epoll_wait was entered
  pc,         \* where the loop thread is
  state,      \* history: "idle" (not started), "armed", "over"
  cancelled   \* tasks whose strong reference is gone

timerVars == <<posted, tasks, copy, current, state, cancelled>>
loopVars == <<ref, delay, began, pc>>
delayVars == <<now, timerVars, loopVars>>

Entry(t, from, d) == [task |-> t, from |-> from, delay |-> d, due |-> from + d]
Earliest(S) == {e \in S : \A f \in S : e.due <= f.due}
FirstDue(S) == (CHOOSE e \in Earliest(S) : TRUE).due

\* epoll_wait returns by itself at began + delay.
TimedOut == delay # 0 /\ now >= began + delay

DelayInit == /\ now = 0
             /\ posted = {} /\ tasks = {} /\ copy = {} /\ current = {}
             /\ ref = 0 /\ delay = 0 /\ began = 0
             /\ pc = "min"
             /\ state = [t \in Timers |-> "idle"]
             /\ cancelled = {}
-----------------------------------------------------------------------------
\* Time need not go further than MaxTime but to end a sleep.
Tick == /\ now < MaxTime \/ (pc = "wait" /\ delay # 0 /\ ~TimedOut)
        /\ now' = now + 1
        /\ UNCHANGED <<timerVars, loopVars>>

\* doDelayTask on another thread.  The deadline is reckoned here, the closure
\* runs later.
DoDelayTask(t, d) ==
  /\ state[t] = "idle" /\ now + d <= MaxTime
  /\ state' = [state EXCEPT ![t] = "armed"]
  /\ posted' = posted \cup {Entry(t, now, d)}
  /\ UNCHANGED <<now, tasks, copy, current, cancelled, loopVars>>

\* doDelayTask on the loop thread, in a timer's or an event's callback:
\* async_first runs the closure at once.
DoDelayTaskInline(t, d) ==
  /\ pc \in {"callback", "event"}
  /\ state[t] = "idle" /\ now + d <= MaxTime
  /\ state' = [state EXCEPT ![t] = "armed"]
  /\ tasks' = tasks \cup {Entry(t, now, d)}
  /\ UNCHANGED <<now, posted, copy, current, cancelled, loopVars>>

\* ~Timer, on any thread: a running task goes on to its end.
Cancel(t) ==
  /\ state[t] = "armed" /\ t \notin cancelled
  /\ cancelled' = cancelled \cup {t}
  /\ UNCHANGED <<now, posted, tasks, copy, current, state, loopVars>>
-----------------------------------------------------------------------------
(* getMinDelay, flushDelayTask *)

GetMinDelay ==
  /\ pc = "min"
  /\ ref' = now
  /\ \/ /\ tasks = {}
        /\ delay' = 0 /\ pc' = "enter"
        /\ UNCHANGED <<tasks, copy>>
     \/ /\ tasks # {} /\ FirstDue(tasks) > now
        /\ delay' = FirstDue(tasks) - now /\ pc' = "enter"
        /\ UNCHANGED <<tasks, copy>>
     \/ /\ tasks # {} /\ FirstDue(tasks) <= now
        /\ copy' = tasks /\ tasks' = {} /\ pc' = "flush"
        /\ UNCHANGED delay
  /\ UNCHANGED <<now, posted, current, state, cancelled, began>>

\* The next expired task, unless it was cancelled.
RunDue ==
  /\ pc = "flush"
  /\ \E e \in Earliest(copy) :
       /\ e.due <= ref
       /\ copy' = copy \ {e}
       /\ IF e.task \in cancelled
          THEN /\ state' = [state EXCEPT ![e.task] = "over"]
               /\ UNCHANGED <<current, pc>>
          ELSE current' = {e} /\ pc' = "callback" /\ UNCHANGED state
  /\ UNCHANGED <<now, posted, tasks, cancelled, ref, delay, began>>

\* The task returns 0 (or throws), or the delay to its next run, which counts
\* from the beginning of the flush.
TimerTaskDone ==
  /\ pc = "callback"
  /\ \E e \in current :
       \/ /\ state' = [state EXCEPT ![e.task] = "over"]
          /\ UNCHANGED tasks
       \/ /\ \E d \in Delays : /\ ref + d <= MaxTime
                              /\ tasks' = tasks \cup {Entry(e.task, ref, d)}
          /\ UNCHANGED state
  /\ current' = {} /\ pc' = "flush"
  /\ UNCHANGED <<now, posted, copy, cancelled, ref, delay, began>>

\* Mutant of FlushEnd: the sleep is reckoned from the new tasks alone.
FlushEnd_NewOnly ==
  /\ pc = "flush" /\ \A e \in copy : e.due > ref
  /\ tasks' = copy \cup tasks /\ copy' = {}
  /\ delay' = IF tasks = {} THEN 0 ELSE FirstDue(tasks) - ref
  /\ pc' = "enter"
  /\ UNCHANGED <<now, posted, current, state, cancelled, ref, began>>

\* No expired task is left: the rest and the new ones make up the map again.
FlushEnd ==
  /\ pc = "flush" /\ \A e \in copy : e.due > ref
  /\ LET all == copy \cup tasks IN
     /\ tasks' = all /\ copy' = {}
     /\ delay' = IF all = {} THEN 0 ELSE FirstDue(all) - ref
  /\ pc' = "enter"
  /\ UNCHANGED <<now, posted, current, state, cancelled, ref, began>>
-----------------------------------------------------------------------------
(* epoll_wait and what wakes it *)

EnterWait == /\ pc = "enter"
             /\ began' = now
             /\ pc' = "wait"
             /\ UNCHANGED <<now, timerVars, ref, delay>>

Timeout == /\ pc = "wait" /\ TimedOut
           /\ pc' = "min"
           /\ UNCHANGED <<now, timerVars, ref, delay, began>>

\* Mutant of RunPosted: the loop goes back to the sleep it was in.
RunPosted_SleepsOn ==
  /\ pc = "wait" /\ posted # {}
  /\ tasks' = tasks \cup posted
  /\ posted' = {}
  /\ UNCHANGED <<now, copy, current, state, cancelled, loopVars>>

\* The pipe is readable: the closures run, then the loop begins again.
RunPosted == /\ pc = "wait" /\ posted # {}
             /\ tasks' = tasks \cup posted
             /\ posted' = {}
             /\ pc' = "min"
             /\ UNCHANGED <<now, copy, current, state, cancelled, ref, delay, began>>

\* A socket is ready; its callback runs, and ends.
SocketEvent == /\ pc = "wait"
               /\ pc' = "event"
               /\ UNCHANGED <<now, timerVars, ref, delay, began>>

SocketEventDone == /\ pc = "event"
                   /\ pc' = "min"
                   /\ UNCHANGED <<now, timerVars, ref, delay, began>>
-----------------------------------------------------------------------------
TimerLoopStep == \/ GetMinDelay \/ RunDue \/ TimerTaskDone \/ FlushEnd
                 \/ EnterWait \/ Timeout \/ RunPosted \/ SocketEventDone

DelayNext == \/ Tick
             \/ \E t \in Timers : \/ \E d \in Delays : DoDelayTask(t, d) \/ DoDelayTaskInline(t, d)
                                  \/ Cancel(t)
             \/ TimerLoopStep
             \/ SocketEvent

DelaySpec == DelayInit /\ [][DelayNext]_delayVars

\* Time passes, callbacks return and the thread runs, but sockets need not be
\* ready.  Ready sockets do not keep the closures waiting: epoll_wait reports
\* the pipe along with them (PipeEvent of EventLoop.tla).
DelayFairSpec == /\ DelaySpec /\ WF_delayVars(Tick)
                 /\ WF_delayVars(TimerLoopStep) /\ SF_delayVars(RunPosted)
-----------------------------------------------------------------------------
(* Properties *)

Entries == [task : Timers, from : Nat, delay : Delays, due : Nat]

\* Every variable keeps its type.
DelayTypeOK == /\ now \in Nat /\ ref \in Nat /\ delay \in Nat /\ began \in Nat
               /\ posted \subseteq Entries /\ tasks \subseteq Entries
               /\ copy \subseteq Entries /\ current \subseteq Entries
               /\ pc \in {"min", "flush", "callback", "enter", "wait", "event"}
               /\ state \in [Timers -> {"idle", "armed", "over"}]
               /\ cancelled \subseteq Timers

\* Wherever a flush, its callbacks and the callers of doDelayTask are, a task
\* that is to run is entered exactly once, in the map, in the copy being
\* flushed, as the running one, or on its way; one that is over nowhere.
NoneLost ==
  \A t \in Timers :
    LET Of(S) == {e \in S : e.task = t} IN
    Cardinality(Of(posted)) + Cardinality(Of(tasks)) + Cardinality(Of(copy))
      + Cardinality(Of(current)) = IF state[t] = "armed" THEN 1 ELSE 0

\* No task runs sooner than its delay after the call of doDelayTask, or after
\* the flush that ran it before.
NotEarly == \A e \in current : now >= e.from + e.delay

\* The loop never sleeps past a task of the map by more than the time that
\* went by between reckoning the delay and entering epoll_wait; in particular
\* it never sleeps without a timeout while there is one.
NeverOversleeps ==
  pc = "wait" => \A e \in tasks : /\ delay # 0
                                  /\ began + delay <= e.due + (began - ref)

\* Whatever is added, repeated or cancelled during a flush, _delay_task_map and
\* the sleep of the loop are as the three above say.
TimersKept == DelayTypeOK /\ NoneLost /\ NotEarly /\ NeverOversleeps

\* A task that is not cancelled runs.
EveryTaskRuns ==
  \A t \in Timers :
    state[t] = "armed" ~> (t \in cancelled \/ \E e \in current : e.task = t)
===============================================================================
