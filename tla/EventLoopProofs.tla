--------------------------- MODULE EventLoopProofs ----------------------------
(***************************************************************************)
(* What EventLoop guarantees for any number of callers, tasks and          *)
(* descriptors and any pipe capacity; and what its timers guarantee for    *)
(* any timers, delays and times (DelayTasks): none is lost, early or slept *)
(* past, whatever callbacks do in a flush.                                 *)
(***************************************************************************)
EXTENDS EventLoop, DelayTasks, FiniteSetTheorems, WellFoundedInduction, TLAPS

USE DEF taskVars, pipeVars, epollVars, exitVars

(* The type invariant. *)

\* Taking the first element of a non-empty sequence.
LEMMA TakeFirst ==
  ASSUME NEW S, NEW s \in Seq(S), s # <<>>
  PROVE  Head(s) \in S /\ Tail(s) \in Seq(S)
OBVIOUS

\* The empty list of tasks has the type of a list.
LEMMA EmptyIsSeq == ASSUME NEW S PROVE <<>> \in Seq(S)
OBVIOUS

\* Handing a task in (async, async_first) keeps the types.
LEMMA AsyncTypeOK ==
  ASSUME TypeOK, NEW th \in Threads, Async(th)
  PROVE  TypeOK'
<1>1. ASSUME NEW t \in Tasks, AsyncInline(th, t)
      PROVE  TypeOK'
  BY <1>1 DEF TypeOK, AsyncInline, AllTasks
<1>2. ASSUME NEW t \in Tasks, NEW maySync \in BOOLEAN, NEW first \in BOOLEAN,
             AsyncPush(th, t, maySync, first)
      PROVE  TypeOK'
  <2>1. <<t>> \o list \in Seq(AllTasks) /\ Append(list, t) \in Seq(AllTasks)
    BY DEF TypeOK, AllTasks
  <2>2. list' \in Seq(AllTasks)
    BY <1>2, <2>1 DEF AsyncPush
  <2> QED BY <1>2, <2>2 DEF TypeOK, AsyncPush
<1> QED BY <1>1, <1>2 DEF Async

\* Each step of runLoop and onPipeEvent keeps the types.
LEMMA LoopTypeOK ==
  ASSUME TypeOK, LoopStep
  PROVE  TypeOK'
<1> USE DEF TypeOK, AllTasks, LoopStates
<1>1. CASE EpollWait      BY <1>1 DEF EpollWait
<1>2. CASE OtherEvent     BY <1>2, PipeAssumption DEF OtherEvent
<1>3. CASE OtherEventDone BY <1>3 DEF OtherEventDone
<1>4. CASE PipeEvent      BY <1>4 DEF PipeEvent
<1>5. CASE LoopTop        BY <1>5 DEF LoopTop
<1>6. CASE DrainRead      BY <1>6, PipeAssumption DEF DrainRead
<1>7. CASE DrainEmpty     BY <1>7 DEF DrainEmpty
<1>8. CASE SwapTasks      BY <1>8 DEF SwapTasks
<1>9. CASE RunTask
  <2>1. Head(batch) \in AllTasks /\ Tail(batch) \in Seq(AllTasks)
    BY <1>9, TakeFirst DEF RunTask
  <2>2. executed' \in Seq(AllTasks)
    BY <1>9, <2>1 DEF RunTask
  <2>3. loop' \in LoopStates /\ exitFlag' \in BOOLEAN
    BY <1>9 DEF RunTask
  <2> QED BY <1>9, <2>1, <2>2, <2>3 DEF RunTask
<1>10. CASE TaskDone      BY <1>10 DEF TaskDone
<1>11. CASE BatchDone     BY <1>11 DEF BatchDone
<1> QED BY <1>1, <1>2, <1>3, <1>4, <1>5, <1>6, <1>7, <1>8, <1>9, <1>10, <1>11
        DEF LoopStep

\* Each step of the destructor and of shutdown keeps the types.
LEMMA DestroyTypeOK ==
  ASSUME TypeOK, Shutdown \/ DestroyStep
  PROVE  TypeOK'
<1> USE DEF TypeOK, AllTasks, OwnerStates
<1>1. CASE Shutdown      BY <1>1 DEF Shutdown, Threads
<1>2. CASE Join          BY <1>2 DEF Join
<1>3. CASE FlushSwap     BY <1>3 DEF FlushSwap
<1>4. CASE FlushRun
  <2>1. Head(batch) \in AllTasks /\ Tail(batch) \in Seq(AllTasks)
    BY <1>4, TakeFirst DEF FlushRun
  <2>2. executed' \in Seq(AllTasks)
    BY <1>4, <2>1 DEF FlushRun
  <2>3. owner' \in OwnerStates /\ exitFlag' \in BOOLEAN
    BY <1>4 DEF FlushRun
  <2> QED BY <1>4, <2>1, <2>2, <2>3 DEF FlushRun
<1>5. CASE FlushTaskDone BY <1>5 DEF FlushTaskDone
<1>6. CASE FlushDone     BY <1>6 DEF FlushDone
<1> QED BY <1>1, <1>2, <1>3, <1>4, <1>5, <1>6 DEF DestroyStep

\* The variables keep their types, and the pipe its capacity.
THEOREM EventLoopTypeOK == Spec => []TypeOK
<1>1. Init => TypeOK
  <2> SUFFICES ASSUME Init PROVE TypeOK
    OBVIOUS
  <2>1. loop \in LoopStates /\ owner \in OwnerStates
    BY DEF Init, LoopStates, OwnerStates
  <2>2. pipe \in 0..PipeCap /\ events \in 0..MaxEvents
    BY PipeAssumption DEF Init
  <2>3. list \in Seq(AllTasks) /\ batch \in Seq(AllTasks)
          /\ executed \in Seq(AllTasks)
    BY EmptyIsSeq DEF Init
  <2> QED BY <2>1, <2>2, <2>3 DEF Init, TypeOK
<1>2. TypeOK /\ [Next]_vars => TypeOK'
  <2> SUFFICES ASSUME TypeOK, [Next]_vars PROVE TypeOK'
    OBVIOUS
  <2>1. ASSUME NEW th \in Threads, Async(th) PROVE TypeOK'
    BY <2>1, AsyncTypeOK
  <2>2. ASSUME NEW th \in Threads, PipeWrite(th) PROVE TypeOK'
    <3>1. pipe' \in 0..PipeCap
      BY <2>2, PipeAssumption DEF PipeWrite, TypeOK
    <3>2. edge' \in BOOLEAN
      BY <2>2 DEF PipeWrite, TypeOK
    <3>3. /\ writing' = writing \ {th}
          /\ UNCHANGED <<fresh, list, batch, executed, pipeReady, events, loop,
                         exitFlag, hasThread, owner>>
      BY <2>2 DEF PipeWrite
    <3> QED BY <3>1, <3>2, <3>3 DEF TypeOK
  <2>3. CASE LoopStep
    BY <2>3, LoopTypeOK
  <2>4. CASE Shutdown \/ DestroyStep
    BY <2>4, DestroyTypeOK
  <2>5. CASE UNCHANGED vars
    BY <2>5 DEF vars, TypeOK
  <2> QED BY <2>1, <2>2, <2>3, <2>4, <2>5 DEF Next, Destroyed
<1> QED BY <1>1, <1>2, PTL DEF Spec

(* No lost wakeup. *)

\* The strengthening: where the wake-up can be while tasks are queued.
WakeupInv ==
  /\ loop \in {"none", "poll", "stopped"} => ~pipeReady
  /\ pipe > 0 => edge \/ pipeReady \/ loop = "drain"
  /\ list # <<>> => writing # {} \/ pipe > 0 \/ loop \in {"drain", "swap"}

\* A caller that finds the list empty becomes the one that will write the pipe.
LEMMA AsyncWakeupInv ==
  ASSUME WakeupInv, NEW th \in Threads, Async(th)
  PROVE  WakeupInv'
<1>1. ASSUME NEW t \in Tasks, AsyncInline(th, t)
      PROVE  WakeupInv'
  BY <1>1 DEF WakeupInv, AsyncInline
<1>2. ASSUME NEW t \in Tasks, NEW maySync \in BOOLEAN, NEW first \in BOOLEAN,
             AsyncPush(th, t, maySync, first)
      PROVE  WakeupInv'
  BY <1>2 DEF WakeupInv, AsyncPush
<1> QED BY <1>1, <1>2 DEF Async

\* A write leaves a byte in the pipe, also one that finds the pipe full.
LEMMA PipeWriteWakeupInv ==
  ASSUME TypeOK, WakeupInv, NEW th \in Threads, PipeWrite(th)
  PROVE  WakeupInv'
<1>1. pipe' > 0 /\ UNCHANGED <<pipeReady, loop>>
  BY PipeAssumption DEF PipeWrite, TypeOK
<1>2. edge' \/ pipeReady \/ loop = "drain"
  BY PipeAssumption DEF PipeWrite, TypeOK, WakeupInv
<1> QED BY <1>1, <1>2 DEF WakeupInv

\* The loop empties the pipe before it takes the list, so no step of it
\* leaves queued tasks with neither a byte, a writer nor a drain under way.
LEMMA LoopWakeupInv ==
  ASSUME TypeOK, WakeupInv, LoopStep
  PROVE  WakeupInv'
<1> USE DEF WakeupInv
<1>1. CASE EpollWait      BY <1>1 DEF EpollWait
<1>2. CASE OtherEvent     BY <1>2 DEF OtherEvent
<1>3. CASE OtherEventDone BY <1>3 DEF OtherEventDone
<1>4. CASE PipeEvent      BY <1>4 DEF PipeEvent
<1>5. CASE LoopTop        BY <1>5 DEF LoopTop
<1>6. CASE DrainRead      BY <1>6 DEF DrainRead
<1>7. CASE DrainEmpty     BY <1>7 DEF DrainEmpty
<1>8. CASE SwapTasks      BY <1>8 DEF SwapTasks
<1>9. CASE RunTask        BY <1>9 DEF RunTask
<1>10. CASE TaskDone      BY <1>10 DEF TaskDone
<1>11. CASE BatchDone     BY <1>11 DEF BatchDone
<1> QED BY <1>1, <1>2, <1>3, <1>4, <1>5, <1>6, <1>7, <1>8, <1>9, <1>10, <1>11
        DEF LoopStep

\* The exit task is handed in like any other, and its wakeup with it.
LEMMA DestroyWakeupInv ==
  ASSUME TypeOK, WakeupInv, Shutdown \/ DestroyStep
  PROVE  WakeupInv'
<1> USE DEF WakeupInv
<1>1. CASE Shutdown      BY <1>1 DEF Shutdown
<1>2. CASE Join          BY <1>2 DEF Join
<1>3. CASE FlushSwap     BY <1>3 DEF FlushSwap
<1>4. CASE FlushRun      BY <1>4 DEF FlushRun
<1>5. CASE FlushTaskDone BY <1>5 DEF FlushTaskDone
<1>6. CASE FlushDone     BY <1>6 DEF FlushDone
<1> QED BY <1>1, <1>2, <1>3, <1>4, <1>5, <1>6 DEF DestroyStep

\* Behind NoLostWakeup: queued tasks have a byte in the pipe, a caller about
\* to write one, or a loop that is on its way to the list.
LEMMA WakeupInvariant == Spec => []WakeupInv
<1>1. Init => WakeupInv
  BY DEF Init, WakeupInv
<1>2. TypeOK /\ WakeupInv /\ [Next]_vars => WakeupInv'
  <2> SUFFICES ASSUME TypeOK, WakeupInv, [Next]_vars PROVE WakeupInv'
    OBVIOUS
  <2>1. CASE UNCHANGED vars
    BY <2>1 DEF vars, WakeupInv
  <2> QED BY <2>1, AsyncWakeupInv, PipeWriteWakeupInv, LoopWakeupInv,
             DestroyWakeupInv DEF Next, Destroyed
<1> QED BY <1>1, <1>2, EventLoopTypeOK, PTL DEF Spec

\* Whatever the interleaving of the callers with the drain and the swap, the
\* loop never goes to sleep on queued tasks.
THEOREM EventLoopNoLostWakeup == Spec => []NoLostWakeup
<1>1. WakeupInv => NoLostWakeup
  BY DEF WakeupInv, NoLostWakeup
<1> QED BY <1>1, WakeupInvariant, PTL

(* One runner at a time. *)

\* The strengthening: a poller that never had a loop thread has nobody in the
\* loop; a swapped-out list has one owner, the loop thread or the destructor.
RunnerInv ==
  /\ ~hasThread /\ owner \in {"alive", "join"} => loop = "none"
  /\ owner \in {"joined", "flush", "flushTask", "gone"}
        => loop \in {"none", "stopped"}
  /\ batch # <<>> => \/ loop \in {"batch", "task"}
                     \/ owner \in {"flush", "flushTask"}

\* Callers run a task themselves only on the loop thread.
LEMMA AsyncRunnerInv ==
  ASSUME RunnerInv, NEW th \in Threads, Async(th)
  PROVE  RunnerInv'
<1>1. ASSUME NEW t \in Tasks, AsyncInline(th, t)
      PROVE  RunnerInv'
  BY <1>1 DEF RunnerInv, AsyncInline
<1>2. ASSUME NEW t \in Tasks, NEW maySync \in BOOLEAN, NEW first \in BOOLEAN,
             AsyncPush(th, t, maySync, first)
      PROVE  RunnerInv'
  BY <1>2 DEF RunnerInv, AsyncPush
<1> QED BY <1>1, <1>2 DEF Async

\* The loop thread runs tasks only while it is alive.
LEMMA LoopRunnerInv ==
  ASSUME TypeOK, RunnerInv, LoopStep
  PROVE  RunnerInv'
<1> USE DEF RunnerInv
<1>0. hasThread \in BOOLEAN /\ owner \in OwnerStates
  BY DEF TypeOK
<1> USE <1>0 DEF OwnerStates
<1>1. CASE EpollWait      BY <1>1 DEF EpollWait
<1>2. CASE OtherEvent     BY <1>2 DEF OtherEvent
<1>3. CASE OtherEventDone BY <1>3 DEF OtherEventDone
<1>4. CASE PipeEvent      BY <1>4 DEF PipeEvent
<1>5. CASE LoopTop        BY <1>5 DEF LoopTop
<1>6. CASE DrainRead      BY <1>6 DEF DrainRead
<1>7. CASE DrainEmpty     BY <1>7 DEF DrainEmpty
<1>8. CASE SwapTasks      BY <1>8 DEF SwapTasks
<1>9. CASE RunTask        BY <1>9 DEF RunTask
<1>10. CASE TaskDone      BY <1>10 DEF TaskDone
<1>11. CASE BatchDone     BY <1>11 DEF BatchDone
<1> QED BY <1>1, <1>2, <1>3, <1>4, <1>5, <1>6, <1>7, <1>8, <1>9, <1>10, <1>11
        DEF LoopStep

\* The destroying thread passes join only when the loop thread has ended.
LEMMA DestroyRunnerInv ==
  ASSUME TypeOK, RunnerInv, Shutdown \/ DestroyStep
  PROVE  RunnerInv'
<1> USE DEF RunnerInv
<1>1. CASE Shutdown      BY <1>1 DEF Shutdown
<1>2. CASE Join          BY <1>2 DEF Join
<1>3. CASE FlushSwap     BY <1>3 DEF FlushSwap
<1>4. CASE FlushRun      BY <1>4 DEF FlushRun
<1>5. CASE FlushTaskDone BY <1>5 DEF FlushTaskDone
<1>6. CASE FlushDone     BY <1>6 DEF FlushDone
<1> QED BY <1>1, <1>2, <1>3, <1>4, <1>5, <1>6 DEF DestroyStep

\* Behind SingleRunner: past join the loop thread has ended.
LEMMA RunnerInvariant == Spec => []RunnerInv
<1>1. Init => RunnerInv
  BY DEF Init, RunnerInv
<1>2. TypeOK /\ RunnerInv /\ [Next]_vars => RunnerInv'
  <2> SUFFICES ASSUME TypeOK, RunnerInv, [Next]_vars PROVE RunnerInv'
    OBVIOUS
  <2>1. CASE UNCHANGED vars
    BY <2>1 DEF vars, RunnerInv
  <2>2. ASSUME NEW th \in Threads, PipeWrite(th) PROVE RunnerInv'
    BY <2>2 DEF PipeWrite, RunnerInv
  <2> QED BY <2>1, <2>2, AsyncRunnerInv, LoopRunnerInv, DestroyRunnerInv
          DEF Next, Destroyed
<1> QED BY <1>1, <1>2, EventLoopTypeOK, PTL DEF Spec

\* The destructor touches the leftover tasks only after the loop thread ended.
THEOREM EventLoopSingleRunner == Spec => []SingleRunner
<1>1. RunnerInv => SingleRunner
  BY DEF RunnerInv, SingleRunner
<1> QED BY <1>1, RunnerInvariant, PTL

(* The loop implements TaskExecutor. *)

\* A task put behind the list is behind the batch and the list.
LEMMA AppendBehind ==
  ASSUME NEW S, NEW s \in Seq(S), NEW r \in Seq(S), NEW e \in S
  PROVE  s \o Append(r, e) = Append(s \o r, e)
OBVIOUS

\* The batch is a prefix of the queue of TaskExecutor, and the list the rest.
LEMMA ConcatSplit ==
  ASSUME NEW S, NEW s \in Seq(S), NEW r \in Seq(S)
  PROVE  /\ Len(s) \in 0..Len(s \o r)
         /\ SubSeq(s \o r, 1, Len(s)) = s
         /\ SubSeq(s \o r, Len(s) + 1, Len(s \o r)) = r
<1>1. SubSeq(s \o r, 1, Len(s)) = s
  OBVIOUS
<1>2. SubSeq(s \o r, Len(s) + 1, Len(s \o r)) = r
  OBVIOUS
<1>3. Len(s) \in 0..Len(s \o r)
  OBVIOUS
<1> QED BY <1>1, <1>2, <1>3, Zenon

\* Taking the first task of a non-empty batch takes the first of the queue.
LEMMA TakeFromFront ==
  ASSUME NEW S, NEW s \in Seq(S), NEW r \in Seq(S), s # <<>>
  PROVE  /\ s \o r # <<>>
         /\ Head(s \o r) = Head(s)
         /\ Tail(s \o r) = Tail(s) \o r
OBVIOUS

\* With an empty batch the queue is the list.
LEMMA EmptyFront ==
  ASSUME NEW S, NEW r \in Seq(S)
  PROVE  <<>> \o r = r /\ r \o <<>> = r
OBVIOUS

\* async and async_first are Post, PostFirst and RunNow of TaskExecutor.
LEMMA AsyncRefines ==
  ASSUME TypeOK, NEW th \in Threads, Async(th)
  PROVE  [Executor!Next]_(Executor!vars)
<1> DEFINE handed == fresh \cup (IF owner = "alive" THEN {Exit} ELSE {})
<1>1. ASSUME NEW t \in Tasks, AsyncInline(th, t)
      PROVE  Executor!RunNow(t)
  <2>1. handed' = handed \ {t} /\ t \in handed
    BY <1>1, TasksAssumption DEF AsyncInline
  <2> QED BY <1>1, <2>1 DEF AsyncInline, Executor!RunNow
<1>2. ASSUME NEW t \in Tasks, NEW maySync \in BOOLEAN, NEW first \in BOOLEAN,
             AsyncPush(th, t, maySync, first)
      PROVE  Executor!Post(t) \/ Executor!PostFirst(t)
  <2>1. handed' = handed \ {t} /\ t \in handed
    BY <1>2, TasksAssumption DEF AsyncPush
  <2>2. batch \in Seq(AllTasks) /\ list \in Seq(AllTasks) /\ t \in AllTasks
    BY DEF TypeOK, AllTasks
  <2>3. CASE first
    <3>1. (batch \o list)' = batch \o (<<t>> \o list)
      BY <1>2, <2>3 DEF AsyncPush
    <3>2. \E i \in 0..Len(batch \o list) :
            (batch \o list)' = SubSeq(batch \o list, 1, i) \o <<t>>
                \o SubSeq(batch \o list, i + 1, Len(batch \o list))
      <4>1. batch \o (<<t>> \o list) = batch \o <<t>> \o list
        BY <2>2
      <4>2. /\ Len(batch) \in 0..Len(batch \o list)
            /\ SubSeq(batch \o list, 1, Len(batch)) = batch
            /\ SubSeq(batch \o list, Len(batch) + 1, Len(batch \o list)) = list
        BY <2>2, ConcatSplit, ZenonT(60)
      <4> QED BY <3>1, <4>1, <4>2, ZenonT(60)
    <3> QED BY <1>2, <2>1, <3>2 DEF AsyncPush, Executor!PostFirst
  <2>4. CASE ~first
    <3>1. (batch \o list)' = Append(batch \o list, t)
      BY <1>2, <2>2, <2>4, AppendBehind DEF AsyncPush
    <3> QED BY <1>2, <2>1, <3>1 DEF AsyncPush, Executor!Post
  <2> QED BY <2>3, <2>4
<1>3. Tasks \subseteq AllTasks
  BY DEF AllTasks
<1> QED BY <1>1, <1>2, <1>3 DEF Async, Executor!Next

\* The exit task of shutdown goes in front: PostFirst of TaskExecutor.
LEMMA ShutdownRefines ==
  ASSUME TypeOK, Shutdown
  PROVE  Executor!PostFirst(Exit)
<1> DEFINE handed == fresh \cup (IF owner = "alive" THEN {Exit} ELSE {})
<1>1. handed' = handed \ {Exit} /\ Exit \in handed
  BY TasksAssumption DEF Shutdown, TypeOK
<1>2. batch \in Seq(AllTasks) /\ list \in Seq(AllTasks) /\ Exit \in AllTasks
  BY DEF TypeOK, AllTasks
<1>3. (batch \o list)' = batch \o (<<Exit>> \o list)
  BY DEF Shutdown
<1>4. \E i \in 0..Len(batch \o list) :
        (batch \o list)' = SubSeq(batch \o list, 1, i) \o <<Exit>>
            \o SubSeq(batch \o list, i + 1, Len(batch \o list))
  <2>1. batch \o (<<Exit>> \o list) = batch \o <<Exit>> \o list
    BY <1>2
  <2>2. /\ Len(batch) \in 0..Len(batch \o list)
        /\ SubSeq(batch \o list, 1, Len(batch)) = batch
        /\ SubSeq(batch \o list, Len(batch) + 1, Len(batch \o list)) = list
    BY <1>2, ConcatSplit, Zenon
  <2> QED BY <1>3, <2>1, <2>2, Zenon
<1> QED BY <1>1, <1>4 DEF Shutdown, Executor!PostFirst

\* Taking the list into an empty batch, by the loop or by the destructor, is
\* a stuttering step.
LEMMA SwapRefines ==
  ASSUME TypeOK, RunnerInv, SwapTasks \/ FlushSwap
  PROVE  UNCHANGED Executor!vars
<1>1. batch = <<>>
  BY DEF RunnerInv, SwapTasks, FlushSwap
<1>2. (batch \o list)' = batch \o list
  <2>1. batch' = list /\ list' = <<>>
    BY DEF SwapTasks, FlushSwap
  <2>2. list \o <<>> = list /\ <<>> \o list = list
    BY EmptyFront DEF TypeOK
  <2> QED BY <1>1, <2>1, <2>2
<1>3. UNCHANGED executed
        /\ UNCHANGED (fresh \cup (IF owner = "alive" THEN {Exit} ELSE {}))
  BY DEF SwapTasks, FlushSwap
<1> QED BY <1>2, <1>3 DEF Executor!vars

\* Running the next task of a batch is RunNext of TaskExecutor.
LEMMA RunRefines ==
  ASSUME TypeOK, RunTask \/ FlushRun
  PROVE  Executor!RunNext
<1>1. batch # <<>> /\ batch' = Tail(batch) /\ list' = list
        /\ executed' = Append(executed, Head(batch))
  BY DEF RunTask, FlushRun
<1>2. UNCHANGED (fresh \cup (IF owner = "alive" THEN {Exit} ELSE {}))
  BY DEF RunTask, FlushRun
<1>3. /\ batch \o list # <<>>
      /\ Head(batch \o list) = Head(batch)
      /\ Tail(batch \o list) = Tail(batch) \o list
  BY <1>1, TakeFromFront DEF TypeOK
<1> QED BY <1>1, <1>2, <1>3 DEF Executor!RunNext

\* No other step of the loop, the pipe or the destructor shows.
LEMMA OtherRefines ==
  ASSUME \/ \E th \in Threads : PipeWrite(th)
         \/ EpollWait \/ OtherEvent \/ OtherEventDone \/ PipeEvent \/ LoopTop
         \/ DrainRead \/ DrainEmpty \/ TaskDone \/ BatchDone
         \/ Join \/ FlushTaskDone \/ FlushDone \/ Destroyed \/ UNCHANGED vars
  PROVE  UNCHANGED Executor!vars
<1>1. UNCHANGED taskVars
        /\ UNCHANGED (fresh \cup (IF owner = "alive" THEN {Exit} ELSE {}))
  BY DEF PipeWrite, EpollWait, OtherEvent, OtherEventDone, PipeEvent, LoopTop,
         DrainRead, DrainEmpty, TaskDone, BatchDone, Join, FlushTaskDone,
         FlushDone, Destroyed, vars
<1> QED BY <1>1 DEF Executor!vars

\* The loop implements TaskExecutor: with any number of threads handing tasks
\* in, each task is run at most once, and async keeps their order.
THEOREM EventLoopFifoExactlyOnce == Spec => FifoExactlyOnce
<1>1. Init => Executor!Init
  BY EmptyFront, EmptyIsSeq DEF Init, Executor!Init, AllTasks
<1>2. TypeOK /\ RunnerInv /\ [Next]_vars => [Executor!Next]_(Executor!vars)
  <2> SUFFICES ASSUME TypeOK, RunnerInv, [Next]_vars
               PROVE  [Executor!Next]_(Executor!vars)
    OBVIOUS
  <2>1. ASSUME NEW th \in Threads, Async(th)
        PROVE  [Executor!Next]_(Executor!vars)
    BY <2>1, AsyncRefines
  <2>2. CASE Shutdown
    BY <2>2, ShutdownRefines DEF Executor!Next, AllTasks
  <2>3. CASE SwapTasks \/ FlushSwap
    BY <2>3, SwapRefines
  <2>4. CASE RunTask \/ FlushRun
    BY <2>4, RunRefines DEF Executor!Next
  <2> QED BY <2>1, <2>2, <2>3, <2>4, OtherRefines
          DEF Next, LoopStep, DestroyStep
<1> QED BY <1>1, <1>2, EventLoopTypeOK, RunnerInvariant, PTL
        DEF Spec, FifoExactlyOnce, Executor!Spec
-----------------------------------------------------------------------------
(***************************************************************************)
(* The timers of a poller (DelayTasks).                                    *)
(***************************************************************************)

USE DEF timerVars, loopVars

(* The first of some natural numbers, and of some entries. *)

Below == OpToRel(<, Nat)

LEMMA BelowFounded == IsWellFoundedOn(Below, Nat)
BY NatLessThanWellFounded, Zenon DEF Below

LEMMA BelowHolds ==
  ASSUME NEW y \in Nat, NEW x \in Nat, y < x
  PROVE  <<y, x>> \in Below
<1>1. <<y, x>> \in Nat \X Nat OBVIOUS
<1>2. <<y, x>>[1] = y /\ <<y, x>>[2] = x OBVIOUS
<1>3. <<y, x>>[1] < <<y, x>>[2] BY <1>2, Zenon
<1> QED BY <1>1, <1>3, Zenon DEF Below, OpToRel

LEMMA LeastNatural ==
  ASSUME NEW S \in SUBSET Nat, S # {}
  PROVE  \E x \in S : \A y \in S : x <= y
<1>1. PICK x \in S : \A y \in S : ~(<<y, x>> \in Below)
  BY WFMin, BelowFounded, Zenon
<1>2. \A y \in S : ~(y < x) BY <1>1, BelowHolds
<1> QED BY <1>2

\* begin() of the map is the entry that is due first.
LEMMA FirstOfMap ==
  ASSUME NEW S \in SUBSET Entries, S # {}
  PROVE  /\ FirstDue(S) \in Nat
         /\ \E e \in S : FirstDue(S) = e.due
         /\ \A e \in S : FirstDue(S) <= e.due
<1>1. \A e \in S : e.due \in Nat BY DEF Entries
<1>2. PICK x \in {e.due : e \in S} : \A y \in {e.due : e \in S} : x <= y
  <2>1. {e.due : e \in S} \in SUBSET Nat BY <1>1
  <2>2. {e.due : e \in S} # {} OBVIOUS
  <2> QED BY <2>1, <2>2, LeastNatural
<1>3. Earliest(S) # {} BY <1>2 DEF Earliest
<1>4. (CHOOSE e \in Earliest(S) : TRUE) \in Earliest(S)
  <2> DEFINE E == Earliest(S)
  <2>1. E # {} BY <1>3
  <2> HIDE DEF E
  <2>2. (CHOOSE e \in E : TRUE) \in E BY <2>1
  <2> QED BY <2>2 DEF E
<1> QED BY <1>1, <1>4 DEF FirstDue, Earliest

LEMMA EntryOf ==
  ASSUME NEW t \in Timers, NEW n \in Nat, NEW d \in Delays
  PROVE  /\ Entry(t, n, d) \in Entries
         /\ Entry(t, n, d).task = t /\ Entry(t, n, d).delay = d
         /\ Entry(t, n, d).from = n /\ Entry(t, n, d).due = n + d
         /\ d \in Nat /\ d > 0
BY DelaysAssumption DEF Entry, Entries

-----------------------------------------------------------------------------
(* The inductive invariant. *)

Placed == posted \cup tasks \cup copy \cup current

\* A task that is to run has one entry, in one place.
Once ==
  /\ \A e, f \in Placed : e.task = f.task => e = f
  /\ posted \cap (tasks \cup copy \cup current) = {}
  /\ tasks \cap (copy \cup current) = {}
  /\ copy \cap current = {}
  /\ \A t \in Timers : state[t] = "armed" <=> \E e \in Placed : e.task = t

\* The copy and the running task belong to a flush.
Flushing ==
  /\ pc \notin {"flush", "callback"} => copy = {}
  /\ pc # "callback" => current = {}
  /\ \A e, f \in current : e = f
  /\ \A e \in current : e.due <= ref

\* What is added in a flush is due after it, and the sleep ends with the first.
Reckoned ==
  /\ ref <= now
  /\ \A e \in Placed : e.due = e.from + e.delay
  /\ pc \in {"flush", "callback"} => \A e \in tasks : e.due > ref
  /\ pc \in {"enter", "wait"} =>
       \A e \in tasks : delay # 0 /\ ref + delay <= e.due

IInv == DelayTypeOK /\ Once /\ Flushing /\ Reckoned

\* The count of NoneLost: a set with at most one entry of a task.
LEMMA CountOf ==
  ASSUME NEW S, NEW t, \A e, f \in S : e.task = t /\ f.task = t => e = f
  PROVE  Cardinality({e \in S : e.task = t})
           = IF \E e \in S : e.task = t THEN 1 ELSE 0
<1>1. CASE \E e \in S : e.task = t
  <2>1. PICK x \in S : x.task = t BY <1>1
  <2>2. {e \in S : e.task = t} = {x} BY <2>1
  <2> QED BY <1>1, <2>2, FS_Singleton
<1>2. CASE ~\E e \in S : e.task = t
  <2>1. {e \in S : e.task = t} = {} BY <1>2
  <2> QED BY <1>2, <2>1, FS_EmptySet
<1> QED BY <1>1, <1>2

LEMMA InvImpliesKept == IInv => TimersKept
<1> SUFFICES ASSUME IInv PROVE TimersKept
  OBVIOUS
<1>1. NoneLost
  <2> SUFFICES ASSUME NEW t \in Timers
               PROVE  LET Of(S) == {e \in S : e.task = t} IN
                      Cardinality(Of(posted)) + Cardinality(Of(tasks))
                        + Cardinality(Of(copy)) + Cardinality(Of(current))
                      = IF state[t] = "armed" THEN 1 ELSE 0
    BY DEF NoneLost
  <2> DEFINE Has(S) == \E e \in S : e.task = t
  <2>1. \A S \in {posted, tasks, copy, current} :
          \A e, f \in S : e.task = t /\ f.task = t => e = f
    BY DEF IInv, Once, Placed
  <2>2. \A S \in {posted, tasks, copy, current} :
          Cardinality({e \in S : e.task = t}) = IF Has(S) THEN 1 ELSE 0
    BY <2>1, CountOf
  <2>3. /\ ~(Has(posted) /\ Has(tasks)) /\ ~(Has(posted) /\ Has(copy))
        /\ ~(Has(posted) /\ Has(current)) /\ ~(Has(tasks) /\ Has(copy))
        /\ ~(Has(tasks) /\ Has(current)) /\ ~(Has(copy) /\ Has(current))
    BY DEF IInv, Once, Placed
  <2>4. state[t] = "armed" <=>
          Has(posted) \/ Has(tasks) \/ Has(copy) \/ Has(current)
    BY DEF IInv, Once, Placed
  <2> HIDE DEF Has
  <2> QED BY <2>2, <2>3, <2>4
<1>2. NotEarly
  <2> SUFFICES ASSUME NEW e \in current PROVE now >= e.from + e.delay
    BY DEF NotEarly
  <2>1. e.due <= ref /\ ref <= now /\ e.due = e.from + e.delay
    BY DEF IInv, Flushing, Reckoned, Placed
  <2>2. e.due \in Nat /\ ref \in Nat /\ now \in Nat
    BY DEF IInv, DelayTypeOK, Entries
  <2> QED BY <2>1, <2>2
<1>3. NeverOversleeps
  <2> SUFFICES ASSUME pc = "wait", NEW e \in tasks
               PROVE  delay # 0 /\ began + delay <= e.due + (began - ref)
    BY DEF NeverOversleeps
  <2>1. delay # 0 /\ ref + delay <= e.due BY DEF IInv, Reckoned
  <2>2. /\ e.due \in Nat /\ ref \in Nat /\ delay \in Nat /\ began \in Nat
    BY DEF IInv, DelayTypeOK, Entries
  <2> QED BY <2>1, <2>2
<1> QED BY <1>1, <1>2, <1>3 DEF IInv, TimersKept

-----------------------------------------------------------------------------
(* The steps. *)

\* Steps that leave the entries and the sleep as they are.
LEMMA TickStep ==
  ASSUME IInv, Tick
  PROVE  IInv'
<1>1. now' = now + 1 /\ UNCHANGED <<posted, tasks, copy, current, state, cancelled,
                                    ref, delay, began, pc>>
  BY DEF Tick
<1>2. now \in Nat /\ ref \in Nat BY DEF IInv, DelayTypeOK
<1>3. DelayTypeOK' BY <1>1, <1>2 DEF IInv, DelayTypeOK
<1>4. Once' /\ Flushing' BY <1>1 DEF IInv, Once, Flushing, Placed
<1>5. Reckoned' BY <1>1, <1>2 DEF IInv, Reckoned, Placed
<1> QED BY <1>3, <1>4, <1>5 DEF IInv

LEMMA CancelStep ==
  ASSUME IInv, NEW t \in Timers, Cancel(t)
  PROVE  IInv'
<1>1. /\ cancelled' = cancelled \cup {t}
      /\ UNCHANGED <<now, posted, tasks, copy, current, state, ref, delay, began, pc>>
  BY DEF Cancel
<1>2. DelayTypeOK' BY <1>1 DEF IInv, DelayTypeOK
<1>3. Once' /\ Flushing' /\ Reckoned'
  BY <1>1 DEF IInv, Once, Flushing, Reckoned, Placed
<1> QED BY <1>2, <1>3 DEF IInv

\* A task that starts has no entry yet.
LEMMA PostStep ==
  ASSUME IInv, NEW t \in Timers, NEW d \in Delays, DoDelayTask(t, d)
  PROVE  IInv'
<1> DEFINE x == Entry(t, now, d)
<1>1. /\ state[t] = "idle" /\ state' = [state EXCEPT ![t] = "armed"]
      /\ posted' = posted \cup {x}
      /\ UNCHANGED <<now, tasks, copy, current, cancelled, ref, delay, began, pc>>
  BY DEF DoDelayTask
<1>2. now \in Nat /\ ref \in Nat BY DEF IInv, DelayTypeOK
<1>3. x \in Entries /\ x.task = t /\ x.due = x.from + x.delay
  BY <1>2, EntryOf
<1> HIDE DEF x
<1>4. \A e \in Placed : e.task # t BY <1>1 DEF IInv, Once
<1>5. Placed' = Placed \cup {x} BY <1>1 DEF Placed
<1>6. DelayTypeOK' BY <1>1, <1>3 DEF IInv, DelayTypeOK
<1>7. Once'
  <2>1. \A e, f \in Placed' : e.task = f.task => e = f
    BY <1>3, <1>4, <1>5 DEF IInv, Once
  <2>2. x \notin Placed BY <1>3, <1>4
  <2>3. /\ posted' \cap (tasks' \cup copy' \cup current') = {}
        /\ tasks' \cap (copy' \cup current') = {}
        /\ copy' \cap current' = {}
    BY <1>1, <2>2 DEF IInv, Once, Placed
  <2>4. \A s \in Timers : state'[s] = "armed" <=> \E e \in Placed' : e.task = s
    BY <1>1, <1>3, <1>5 DEF IInv, Once, DelayTypeOK
  <2> QED BY <2>1, <2>3, <2>4 DEF Once
<1>8. Flushing' BY <1>1 DEF IInv, Flushing
<1>9. Reckoned' BY <1>1, <1>3, <1>5 DEF IInv, Reckoned
<1> QED BY <1>6, <1>7, <1>8, <1>9 DEF IInv

LEMMA InlineStep ==
  ASSUME IInv, NEW t \in Timers, NEW d \in Delays, DoDelayTaskInline(t, d)
  PROVE  IInv'
<1> DEFINE x == Entry(t, now, d)
<1>1. /\ state[t] = "idle" /\ state' = [state EXCEPT ![t] = "armed"]
      /\ tasks' = tasks \cup {x} /\ pc \in {"callback", "event"}
      /\ UNCHANGED <<now, posted, copy, current, cancelled, ref, delay, began, pc>>
  BY DEF DoDelayTaskInline
<1>2. now \in Nat /\ ref \in Nat /\ ref <= now BY DEF IInv, DelayTypeOK, Reckoned
<1>3. x \in Entries /\ x.task = t /\ x.due = x.from + x.delay /\ x.due > ref
  <2>1. x.due = now + d /\ d \in Nat /\ d > 0 BY <1>2, EntryOf
  <2>2. x.due > ref BY <1>2, <2>1
  <2> QED BY <1>2, <2>2, EntryOf
<1> HIDE DEF x
<1>4. \A e \in Placed : e.task # t BY <1>1 DEF IInv, Once
<1>5. Placed' = Placed \cup {x} BY <1>1 DEF Placed
<1>6. DelayTypeOK' BY <1>1, <1>3 DEF IInv, DelayTypeOK
<1>7. Once'
  <2>1. \A e, f \in Placed' : e.task = f.task => e = f
    BY <1>3, <1>4, <1>5 DEF IInv, Once
  <2>2. x \notin Placed BY <1>3, <1>4
  <2>3. /\ posted' \cap (tasks' \cup copy' \cup current') = {}
        /\ tasks' \cap (copy' \cup current') = {}
        /\ copy' \cap current' = {}
    BY <1>1, <2>2 DEF IInv, Once, Placed
  <2>4. \A s \in Timers : state'[s] = "armed" <=> \E e \in Placed' : e.task = s
    BY <1>1, <1>3, <1>5 DEF IInv, Once, DelayTypeOK
  <2> QED BY <2>1, <2>3, <2>4 DEF Once
<1>8. Flushing' BY <1>1 DEF IInv, Flushing
<1>9. Reckoned' BY <1>1, <1>3, <1>5 DEF IInv, Reckoned
<1> QED BY <1>6, <1>7, <1>8, <1>9 DEF IInv

\* A flush begins with the whole map, or the sleep ends with its first entry.
LEMMA MinStep ==
  ASSUME IInv, GetMinDelay
  PROVE  IInv'
<1>1. /\ pc = "min" /\ ref' = now
      /\ UNCHANGED <<now, posted, current, state, cancelled, began>>
  BY DEF GetMinDelay
<1>2. now \in Nat /\ tasks \subseteq Entries /\ copy = {} /\ current = {}
  BY <1>1 DEF IInv, DelayTypeOK, Flushing
<1>3. CASE tasks = {} /\ delay' = 0 /\ pc' = "enter" /\ UNCHANGED <<tasks, copy>>
  <2>1. DelayTypeOK' BY <1>1, <1>3 DEF IInv, DelayTypeOK
  <2>2. Once' /\ Flushing' BY <1>1, <1>2, <1>3 DEF IInv, Once, Flushing, Placed
  <2>3. Reckoned' BY <1>1, <1>2, <1>3 DEF IInv, Reckoned, Placed
  <2> QED BY <2>1, <2>2, <2>3 DEF IInv
<1>4. CASE /\ tasks # {} /\ FirstDue(tasks) > now
           /\ delay' = FirstDue(tasks) - now /\ pc' = "enter"
           /\ UNCHANGED <<tasks, copy>>
  <2>1. FirstDue(tasks) \in Nat /\ \A e \in tasks : FirstDue(tasks) <= e.due
    BY <1>2, <1>4, FirstOfMap
  <2>2. delay' \in Nat /\ delay' # 0 /\ ref' + delay' = FirstDue(tasks)
    BY <1>1, <1>2, <1>4, <2>1
  <2>3. DelayTypeOK' BY <1>1, <1>4, <2>2 DEF IInv, DelayTypeOK
  <2>4. Once' /\ Flushing' BY <1>1, <1>2, <1>4 DEF IInv, Once, Flushing, Placed
  <2>5. Reckoned' BY <1>1, <1>2, <1>4, <2>1, <2>2 DEF IInv, Reckoned, Placed
  <2> QED BY <2>3, <2>4, <2>5 DEF IInv
<1>5. CASE copy' = tasks /\ tasks' = {} /\ pc' = "flush" /\ UNCHANGED delay
  <2>1. DelayTypeOK' BY <1>1, <1>5 DEF IInv, DelayTypeOK
  <2>2. Placed' = Placed BY <1>1, <1>2, <1>5 DEF Placed
  <2>3. Once' BY <1>1, <1>2, <1>5, <2>2 DEF IInv, Once
  <2>4. Flushing' BY <1>1, <1>2, <1>5 DEF IInv, Flushing
  <2>5. Reckoned' BY <1>1, <1>2, <1>5, <2>2 DEF IInv, Reckoned
  <2> QED BY <2>1, <2>3, <2>4, <2>5 DEF IInv
<1> QED BY <1>3, <1>4, <1>5 DEF GetMinDelay

\* The entry of the task that runs leaves the copy, and so does a cancelled one.
LEMMA RunStep ==
  ASSUME IInv, RunDue
  PROVE  IInv'
<1>1. PICK e \in Earliest(copy) :
        /\ e.due <= ref /\ copy' = copy \ {e}
        /\ IF e.task \in cancelled
           THEN /\ state' = [state EXCEPT ![e.task] = "over"]
                /\ UNCHANGED <<current, pc>>
           ELSE current' = {e} /\ pc' = "callback" /\ UNCHANGED state
  BY DEF RunDue
<1>2. /\ pc = "flush" /\ UNCHANGED <<now, posted, tasks, cancelled, ref, delay, began>>
  BY DEF RunDue
<1>3. e \in copy /\ e \in Entries /\ current = {}
  BY <1>1, <1>2 DEF Earliest, IInv, DelayTypeOK, Flushing
<1>4. e.task \in Timers /\ e \in Placed /\ e \notin posted \cup tasks
  BY <1>3 DEF Entries, Placed, IInv, Once
<1>5. CASE e.task \in cancelled
  <2>1. /\ state' = [state EXCEPT ![e.task] = "over"] /\ UNCHANGED <<current, pc>>
    BY <1>1, <1>5
  <2>2. DelayTypeOK' BY <1>1, <1>2, <1>4, <2>1 DEF IInv, DelayTypeOK
  <2>3. Placed' = Placed \ {e} BY <1>1, <1>2, <1>3, <1>4, <2>1 DEF Placed
  <2>4. \A t \in Timers : state'[t] = "armed" <=> \E f \in Placed' : f.task = t
    <3> SUFFICES ASSUME NEW t \in Timers
                 PROVE  state'[t] = "armed" <=> \E f \in Placed' : f.task = t
      OBVIOUS
    <3>1. CASE t = e.task
      <4>1. state'[t] = "over" BY <1>4, <2>1, <3>1 DEF IInv, DelayTypeOK
      <4>2. \A f \in Placed' : f.task # t
        BY <1>4, <2>3, <3>1 DEF IInv, Once
      <4> QED BY <4>1, <4>2
    <3>2. CASE t # e.task
      <4>1. state'[t] = state[t] BY <2>1, <3>2 DEF IInv, DelayTypeOK
      <4> QED BY <2>3, <3>2, <4>1 DEF IInv, Once
    <3> QED BY <3>1, <3>2
  <2>5. Once' BY <1>1, <1>2, <2>1, <2>3, <2>4 DEF IInv, Once
  <2>6. Flushing' BY <1>1, <1>2, <2>1 DEF IInv, Flushing
  <2>7. Reckoned' BY <1>2, <2>1, <2>3 DEF IInv, Reckoned
  <2> QED BY <2>2, <2>5, <2>6, <2>7 DEF IInv
<1>6. CASE e.task \notin cancelled
  <2>1. current' = {e} /\ pc' = "callback" /\ UNCHANGED state BY <1>1, <1>6
  <2>2. DelayTypeOK' BY <1>1, <1>2, <1>3, <2>1 DEF IInv, DelayTypeOK
  <2>3. Placed' = Placed BY <1>1, <1>2, <1>3, <2>1 DEF Placed
  <2>4. Once' BY <1>1, <1>2, <1>3, <1>4, <2>1, <2>3 DEF IInv, Once
  <2>5. Flushing' BY <1>1, <1>2, <2>1 DEF IInv, Flushing
  <2>6. Reckoned' BY <1>2, <2>1, <2>3 DEF IInv, Reckoned
  <2> QED BY <2>2, <2>4, <2>5, <2>6 DEF IInv
<1> QED BY <1>5, <1>6

\* A task that ended is over, or is in the map again with a later deadline.
LEMMA DoneStep ==
  ASSUME IInv, TimerTaskDone
  PROVE  IInv'
<1>1. PICK e \in current :
        \/ state' = [state EXCEPT ![e.task] = "over"] /\ UNCHANGED tasks
        \/ /\ \E d \in Delays : /\ ref + d <= MaxTime
                                /\ tasks' = tasks \cup {Entry(e.task, ref, d)}
           /\ UNCHANGED state
  BY DEF TimerTaskDone
<1>2. /\ pc = "callback" /\ current' = {} /\ pc' = "flush"
      /\ UNCHANGED <<now, posted, copy, cancelled, ref, delay, began>>
  BY DEF TimerTaskDone
<1>3. /\ current = {e} /\ e \in Entries /\ e.task \in Timers
      /\ e \in Placed /\ e \notin posted \cup tasks \cup copy
  <2>1. current = {e} BY DEF IInv, Flushing
  <2>2. e \in Entries BY <2>1 DEF IInv, DelayTypeOK
  <2> QED BY <2>1, <2>2 DEF Entries, Placed, IInv, Once
<1>4. ref \in Nat BY DEF IInv, DelayTypeOK
<1>5. \A f \in Placed \ {e} : f.task # e.task
  BY <1>3 DEF IInv, Once
<1>6. CASE state' = [state EXCEPT ![e.task] = "over"] /\ UNCHANGED tasks
  <2>1. DelayTypeOK' BY <1>2, <1>3, <1>6 DEF IInv, DelayTypeOK
  <2>2. Placed' = Placed \ {e} BY <1>2, <1>3, <1>6 DEF Placed
  <2>3. \A t \in Timers : state'[t] = "armed" <=> \E f \in Placed' : f.task = t
    <3> SUFFICES ASSUME NEW t \in Timers
                 PROVE  state'[t] = "armed" <=> \E f \in Placed' : f.task = t
      OBVIOUS
    <3>1. CASE t = e.task
      <4>1. state'[t] = "over" BY <1>3, <1>6, <3>1 DEF IInv, DelayTypeOK
      <4> QED BY <1>5, <2>2, <3>1, <4>1
    <3>2. CASE t # e.task
      <4>1. state'[t] = state[t] BY <1>6, <3>2 DEF IInv, DelayTypeOK
      <4> QED BY <2>2, <3>2, <4>1 DEF IInv, Once
    <3> QED BY <3>1, <3>2
  <2>4. Once' BY <1>2, <1>6, <2>2, <2>3 DEF IInv, Once
  <2>5. Flushing' BY <1>2 DEF IInv, Flushing
  <2>6. Reckoned' BY <1>2, <1>6, <2>2 DEF IInv, Reckoned
  <2> QED BY <2>1, <2>4, <2>5, <2>6 DEF IInv
<1>7. ASSUME NEW d \in Delays, tasks' = tasks \cup {Entry(e.task, ref, d)},
             UNCHANGED state
      PROVE  IInv'
  <2> DEFINE x == Entry(e.task, ref, d)
  <2>1. /\ x \in Entries /\ x.task = e.task /\ x.due = x.from + x.delay
        /\ x.due > ref
    <3>1. x.due = ref + d /\ d \in Nat /\ d > 0 BY <1>3, <1>4, EntryOf
    <3>2. x.due > ref BY <1>4, <3>1
    <3> QED BY <1>3, <1>4, <3>2, EntryOf
  <2> HIDE DEF x
  <2>2. tasks' = tasks \cup {x} /\ UNCHANGED state BY <1>7 DEF x
  <2>3. Placed' = (Placed \ {e}) \cup {x} BY <1>2, <1>3, <2>2 DEF Placed
  <2>4. DelayTypeOK' BY <1>2, <2>1, <2>2 DEF IInv, DelayTypeOK
  <2>5. Once'
    <3>1. \A f, g \in Placed' : f.task = g.task => f = g
      BY <1>5, <2>1, <2>3 DEF IInv, Once
    <3>2. x \notin Placed \ {e} BY <1>5, <2>1
    <3>3. x \notin posted /\ x \notin copy
      BY <1>3, <3>2 DEF Placed
    <3>4. /\ posted' \cap (tasks' \cup copy' \cup current') = {}
          /\ tasks' \cap (copy' \cup current') = {}
          /\ copy' \cap current' = {}
      BY <1>2, <2>2, <3>3 DEF IInv, Once
    <3>5. \A t \in Timers : state'[t] = "armed" <=> \E f \in Placed' : f.task = t
      <4>1. \A t : (\E f \in Placed' : f.task = t) <=> (\E f \in Placed : f.task = t)
        BY <1>3, <2>1, <2>3
      <4> QED BY <2>2, <4>1 DEF IInv, Once
    <3> QED BY <3>1, <3>4, <3>5 DEF Once
  <2>6. Flushing' BY <1>2 DEF IInv, Flushing
  <2>7. Reckoned' BY <1>2, <2>1, <2>2, <2>3 DEF IInv, Reckoned
  <2> QED BY <2>4, <2>5, <2>6, <2>7 DEF IInv
<1> QED BY <1>1, <1>6, <1>7

\* What is left and what is new make up the map, and the sleep ends with the
\* first of both.
LEMMA FlushEndStep ==
  ASSUME IInv, FlushEnd
  PROVE  IInv'
<1> DEFINE all == copy \cup tasks
<1>1. /\ pc = "flush" /\ pc' = "enter" /\ \A e \in copy : e.due > ref
      /\ tasks' = all /\ copy' = {}
      /\ delay' = IF all = {} THEN 0 ELSE FirstDue(all) - ref
      /\ UNCHANGED <<now, posted, current, state, cancelled, ref, began>>
  BY DEF FlushEnd
<1>2. ref \in Nat /\ all \in SUBSET Entries /\ current = {}
  BY <1>1 DEF IInv, DelayTypeOK, Flushing
<1>3. \A e \in all : e.due > ref BY <1>1 DEF IInv, Reckoned
<1> HIDE DEF all
<1>4. delay' \in Nat /\ \A e \in all : delay' # 0 /\ ref + delay' <= e.due
  <2>1. CASE all = {} BY <1>1, <2>1
  <2>2. CASE all # {}
    <3>1. FirstDue(all) \in Nat /\ \A e \in all : FirstDue(all) <= e.due
      BY <1>2, <2>2, FirstOfMap
    <3>2. FirstDue(all) > ref BY <1>2, <1>3, <2>2, FirstOfMap
    <3>3. delay' = FirstDue(all) - ref BY <1>1, <2>2
    <3>4. delay' \in Nat /\ delay' # 0 /\ ref + delay' = FirstDue(all)
      BY <1>2, <3>1, <3>2, <3>3
    <3> QED BY <3>1, <3>4
  <2> QED BY <2>1, <2>2
<1>5. Placed' = Placed BY <1>1 DEF Placed, all
<1>6. DelayTypeOK' BY <1>1, <1>2, <1>4 DEF IInv, DelayTypeOK
<1>7. Once' BY <1>1, <1>2, <1>5 DEF IInv, Once, all
<1>8. Flushing' BY <1>1, <1>2 DEF IInv, Flushing
<1>9. Reckoned' BY <1>1, <1>4, <1>5 DEF IInv, Reckoned
<1> QED BY <1>6, <1>7, <1>8, <1>9 DEF IInv

\* epoll_wait, and what ends it.
LEMMA WaitStep ==
  ASSUME IInv, EnterWait \/ Timeout \/ RunPosted \/ SocketEvent \/ SocketEventDone
  PROVE  IInv'
<1>1. CASE EnterWait
  <2>1. /\ pc = "enter" /\ pc' = "wait" /\ began' = now
        /\ UNCHANGED <<now, posted, tasks, copy, current, state, cancelled, ref, delay>>
    BY <1>1 DEF EnterWait
  <2>2. DelayTypeOK' BY <2>1 DEF IInv, DelayTypeOK
  <2>3. Once' /\ Flushing' /\ Reckoned'
    BY <2>1 DEF IInv, Once, Flushing, Reckoned, Placed
  <2> QED BY <2>2, <2>3 DEF IInv
<1>2. CASE Timeout \/ SocketEvent \/ SocketEventDone
  <2>1. /\ pc \in {"wait", "event"} /\ pc' \in {"min", "event"}
        /\ UNCHANGED <<now, posted, tasks, copy, current, state, cancelled, ref,
                       delay, began>>
    BY <1>2 DEF Timeout, SocketEvent, SocketEventDone
  <2>2. DelayTypeOK' BY <2>1 DEF IInv, DelayTypeOK
  <2>3. Once' /\ Flushing' /\ Reckoned'
    BY <2>1 DEF IInv, Once, Flushing, Reckoned, Placed
  <2> QED BY <2>2, <2>3 DEF IInv
<1>3. CASE RunPosted
  <2>1. /\ pc = "wait" /\ pc' = "min" /\ tasks' = tasks \cup posted /\ posted' = {}
        /\ UNCHANGED <<now, copy, current, state, cancelled, ref, delay, began>>
    BY <1>3 DEF RunPosted
  <2>2. Placed' = Placed BY <2>1 DEF Placed
  <2>3. DelayTypeOK' BY <2>1 DEF IInv, DelayTypeOK
  <2>4. Once' BY <2>1, <2>2 DEF IInv, Once
  <2>5. Flushing' BY <2>1 DEF IInv, Flushing
  <2>6. Reckoned' BY <2>1, <2>2 DEF IInv, Reckoned
  <2> QED BY <2>3, <2>4, <2>5, <2>6 DEF IInv
<1> QED BY <1>1, <1>2, <1>3

-----------------------------------------------------------------------------
\* Whatever timers are started, repeated and cancelled while a flush runs, and
\* however long callbacks take, every timer has one entry, none runs early and
\* the loop does not sleep past one (doDelayTask, getMinDelay, flushDelayTask).
THEOREM DelayTasksKeepTimers == DelaySpec => []TimersKept
<1>1. DelayInit => IInv
  <2> SUFFICES ASSUME DelayInit PROVE IInv
    OBVIOUS
  <2>1. /\ now = 0 /\ posted = {} /\ tasks = {} /\ copy = {} /\ current = {}
        /\ ref = 0 /\ delay = 0 /\ began = 0 /\ pc = "min"
        /\ state = [t \in Timers |-> "idle"] /\ cancelled = {}
    BY DEF DelayInit
  <2>2. DelayTypeOK BY <2>1 DEF DelayTypeOK
  <2>3. Once /\ Flushing /\ Reckoned
    BY <2>1 DEF Once, Flushing, Reckoned, Placed
  <2> QED BY <2>2, <2>3 DEF IInv
<1>2. IInv /\ [DelayNext]_delayVars => IInv'
  <2> SUFFICES ASSUME IInv, [DelayNext]_delayVars PROVE IInv'
    OBVIOUS
  <2>1. CASE Tick BY <2>1, TickStep
  <2>2. ASSUME NEW t \in Timers, NEW d \in Delays, DoDelayTask(t, d) PROVE IInv'
    BY <2>2, PostStep
  <2>3. ASSUME NEW t \in Timers, NEW d \in Delays, DoDelayTaskInline(t, d)
        PROVE  IInv'
    BY <2>3, InlineStep
  <2>4. ASSUME NEW t \in Timers, Cancel(t) PROVE IInv'
    BY <2>4, CancelStep
  <2>5. CASE GetMinDelay BY <2>5, MinStep
  <2>6. CASE RunDue BY <2>6, RunStep
  <2>7. CASE TimerTaskDone BY <2>7, DoneStep
  <2>8. CASE FlushEnd BY <2>8, FlushEndStep
  <2>9. CASE EnterWait \/ Timeout \/ RunPosted \/ SocketEvent \/ SocketEventDone
    BY <2>9, WaitStep
  <2>10. CASE UNCHANGED delayVars
    <3>1. UNCHANGED <<now, posted, tasks, copy, current, state, cancelled, ref,
                      delay, began, pc>>
      BY <2>10 DEF delayVars
    <3>2. DelayTypeOK' BY <3>1 DEF IInv, DelayTypeOK
    <3>3. Once' /\ Flushing' /\ Reckoned'
      BY <3>1 DEF IInv, Once, Flushing, Reckoned, Placed
    <3> QED BY <3>2, <3>3 DEF IInv
  <2> QED BY <2>1, <2>2, <2>3, <2>4, <2>5, <2>6, <2>7, <2>8, <2>9, <2>10
          DEF DelayNext, TimerLoopStep
<1> QED BY <1>1, <1>2, InvImpliesKept, PTL DEF DelaySpec
===============================================================================
